---- MODULE Spec2Model ----
(***************************************************************************)
(* State-machine model of sshtun-user: the tunneluser package (account     *)
(* lifecycle, listing, teardown helpers) and the commands that drive it.   *)
(* The operating system is modelled by /etc/passwd (a sequence of          *)
(* entries), /etc/group (the supplementary member lists of the two tunnel  *)
(* groups), the authorized_keys.d directory and the two scheduler          *)
(* deny-lists (character sequences).  Usernames are one character long,    *)
(* so a deny-list line names a user exactly when it is that one character. *)
(***************************************************************************)
EXTENDS Integers, Sequences, FiniteSets, TLC

\* ------------------------------------------------------------------------
\* Program constants
\* ------------------------------------------------------------------------
GroupPasswordAuth == "sshtunnel-password"
GroupKeyAuth == "sshtunnel-key"
AuthModePassword == "password"
AuthModeKey == "key"
CronDeny == "/etc/cron.deny"
AtDeny == "/etc/at.deny"

\* the order in which the code ranges over the two groups / the two files
TunnelGroups == <<GroupPasswordAuth, GroupKeyAuth>>
DenyFiles == <<CronDeny, AtDeny>>
GroupSet == {GroupPasswordAuth, GroupKeyAuth}
DenyFileSet == {CronDeny, AtDeny}
AuthModes == {AuthModePassword, AuthModeKey}

\* ------------------------------------------------------------------------
\* Model universe
\* ------------------------------------------------------------------------
Users == {"a", "b"}
Ghost == "g"
NL == "\n"
Chars == Users \cup {Ghost, NL}
OtherGroup == "users"
NoPassword == "!"
Passwords == {"pw1"}
GoodKey == <<"ssh-ed25519", " ", "AAAA">>
BadKey == <<"not-a-key">>
PublicKeys == {GoodKey, BadKey}
NotFound == "notfound"
Nil == "nil"
MaxFailures == 1
MaxDenyLen == 4

\* the characters of a username (usernames of the model are one character)
Str(u) == IF u = "" THEN <<>> ELSE <<u>>

VARIABLES passwd, group, keyDir, keyFiles, deny, configured, createPubkey, inst

vars == <<passwd, group, keyDir, keyFiles, deny, configured, createPubkey, inst>>

\* the operating-system state the tunneluser package reads and writes
Sys == [passwd |-> passwd, group |-> group, keyDir |-> keyDir,
        keyFiles |-> keyFiles, deny |-> deny]

\* ------------------------------------------------------------------------
\* String helpers
\* ------------------------------------------------------------------------
RECURSIVE splitFrom(_, _, _, _)
splitFrom(s, start, i, lines) ==
  IF i > Len(s)
  THEN IF start <= Len(s) THEN Append(lines, SubSeq(s, start, Len(s))) ELSE lines
  ELSE IF s[i] = NL
       THEN splitFrom(s, i + 1, i + 1, Append(lines, SubSeq(s, start, i - 1)))
       ELSE splitFrom(s, start, i + 1, lines)

splitLines(s) == splitFrom(s, 1, 1, <<>>)

RECURSIVE Join(_, _)
Join(lines, sep) ==
  IF Len(lines) = 0 THEN <<>>
  ELSE IF Len(lines) = 1 THEN lines[1]
  ELSE lines[1] \o sep \o Join(Tail(lines), sep)

HasSuffix(s, c) == Len(s) > 0 /\ s[Len(s)] = c

InSeq(x, s) == \E i \in 1..Len(s) : s[i] = x

RemoveAll(s, x) == SelectSeq(s, LAMBDA y : y # x)

\* ------------------------------------------------------------------------
\* State reader
\* ------------------------------------------------------------------------
LookupGroup(S, g) == g \in DOMAIN S.group

Exists(S, u) == \E i \in 1..Len(S.passwd) : S.passwd[i].name = u

Entry(S, u) == S.passwd[CHOOSE i \in 1..Len(S.passwd) : S.passwd[i].name = u]

getGroupMembers(S, g) == IF g \in DOMAIN S.group THEN S.group[g] ELSE <<>>

getUsersWithPrimaryGroup(S, g) ==
  IF ~LookupGroup(S, g) THEN <<>>
  ELSE LET sel == SelectSeq(S.passwd, LAMBDA e : e.gid = g)
       IN [i \in 1..Len(sel) |-> sel[i].name]

isPrimaryGroup(S, u, g) ==
  Exists(S, u) /\ LookupGroup(S, g) /\ Entry(S, u).gid = g

\* mutant: the primary group is not consulted
isInGroup_supplementaryOnly(S, u, g) == InSeq(u, getGroupMembers(S, g))

isInGroup(S, u, g) == InSeq(u, getGroupMembers(S, g)) \/ isPrimaryGroup(S, u, g)

\* mutant: the key group is looked up first
GetAuthMode_keyFirst(S, u) ==
  IF isInGroup(S, u, GroupKeyAuth) THEN AuthModeKey
  ELSE IF isInGroup(S, u, GroupPasswordAuth) THEN AuthModePassword
  ELSE NotFound

GetAuthMode(S, u) ==
  IF isInGroup(S, u, GroupPasswordAuth) THEN AuthModePassword
  ELSE IF isInGroup(S, u, GroupKeyAuth) THEN AuthModeKey
  ELSE NotFound

IsTunnelUser(S, u) == GetAuthMode(S, u) # NotFound

RECURSIVE addUsers(_, _, _)
addUsers(users, names, mode) ==
  IF Len(names) = 0 THEN users
  ELSE IF \E i \in 1..Len(users) : users[i].Username = Head(names)
       THEN addUsers(users, Tail(names), mode)
       ELSE addUsers(Append(users, [Username |-> Head(names), AuthMode |-> mode]),
                     Tail(names), mode)

\* mutant: the key users are listed first
List_keyFirst(S) ==
  LET passwordUsers == getGroupMembers(S, GroupPasswordAuth)
                         \o getUsersWithPrimaryGroup(S, GroupPasswordAuth)
      keyUsers == getGroupMembers(S, GroupKeyAuth)
                    \o getUsersWithPrimaryGroup(S, GroupKeyAuth)
  IN addUsers(addUsers(<<>>, keyUsers, AuthModeKey), passwordUsers, AuthModePassword)

List(S) ==
  LET passwordUsers == getGroupMembers(S, GroupPasswordAuth)
                         \o getUsersWithPrimaryGroup(S, GroupPasswordAuth)
      keyUsers == getGroupMembers(S, GroupKeyAuth)
                    \o getUsersWithPrimaryGroup(S, GroupKeyAuth)
  IN addUsers(addUsers(<<>>, passwordUsers, AuthModePassword), keyUsers, AuthModeKey)

\* mutant: only the member lists of /etc/group are consulted
GroupsHaveUsers_supplementaryOnly(S) ==
  \E g \in GroupSet : Len(getGroupMembers(S, g)) > 0

GroupsHaveUsers(S) ==
  \E g \in GroupSet :
     Len(getGroupMembers(S, g)) > 0 \/ Len(getUsersWithPrimaryGroup(S, g)) > 0

\* ------------------------------------------------------------------------
\* External commands (account and group databases)
\* ------------------------------------------------------------------------
Without(f, x) == [y \in (DOMAIN f) \ {x} |-> f[y]]

With(f, x, v) == [y \in (DOMAIN f) \cup {x} |-> IF y = x THEN v ELSE f[y]]

\* groupadd <g>
groupadd(S, g) == [S EXCEPT !.group = With(S.group, g, <<>>)]

\* groupdel <g>
groupdel(S, g) == [S EXCEPT !.group = Without(S.group, g)]

\* gpasswd -d <u> <g>: drops u from the member list of g; the primary
\* group of u, which lives in /etc/passwd, is not touched
gpasswdDel(S, u, g) ==
  IF LookupGroup(S, g) THEN [S EXCEPT !.group[g] = RemoveAll(@, u)] ELSE S

\* usermod -aG <g> <u>: appends u to the member list of g
usermodAppend(S, u, g) ==
  IF InSeq(u, S.group[g]) THEN S ELSE [S EXCEPT !.group[g] = Append(@, u)]

\* useradd --system --gid <g> <u>
useradd(S, u, g) ==
  [S EXCEPT !.passwd = Append(@, [name |-> u, gid |-> g, pw |-> NoPassword])]

\* userdel <u>: drops the passwd entry and u from every member list
userdel(S, u) ==
  [S EXCEPT !.passwd = SelectSeq(@, LAMBDA e : e.name # u),
            !.group = [g \in DOMAIN S.group |-> RemoveAll(S.group[g], u)]]

\* ------------------------------------------------------------------------
\* Credential setter
\* ------------------------------------------------------------------------
\* a key is a sequence of lexemes: a type name, "ecdsa-sha2-nistp", a digit,
\* a space, a newline, or other text
KeyTypes == {"ssh-rsa", "ssh-ed25519", "ssh-dss"}
EcdsaPrefix == "ecdsa-sha2-nistp"
Digits == {"2"}

\* mutant: the space after the type is not required
ValidatePublicKey_noSpace(key) ==
  \/ Len(key) >= 1 /\ key[1] \in KeyTypes
  \/ /\ Len(key) >= 2
     /\ key[1] = EcdsaPrefix
     /\ key[2] \in Digits

\* the pattern ^(ssh-rsa|ssh-ed25519|ecdsa-sha2-nistp\d+|ssh-dss) followed by
\* a space
ValidatePublicKey(key) ==
  \/ Len(key) >= 2 /\ key[1] \in KeyTypes /\ key[2] = " "
  \/ /\ Len(key) >= 3
     /\ key[1] = EcdsaPrefix
     /\ \E n \in 2..(Len(key) - 1) :
          /\ \A i \in 2..n : key[i] \in Digits
          /\ key[n + 1] = " "

KeyFileContent(key) == <<"restrict,port-forwarding", " ">> \o key \o <<NL>>

\* outcome of the file-system steps of SetupSSHKey
CredOutcomes == {"ok", "mkdir", "chown"}

\* mutant: the key is written without validation
SetupSSHKey_noValidate(S, u, key, io) ==
  IF io = "mkdir" THEN [S |-> S, err |-> "failed to create authorized_keys.d"]
  ELSE LET S1 == [S EXCEPT !.keyDir = TRUE,
                           !.keyFiles = With(S.keyFiles, u,
                               [content |-> KeyFileContent(key),
                                perm |-> <<6, 4, 4>>, owner |-> "root"])]
       IN IF io = "chown" THEN [S |-> S1, err |-> "failed to set ownership"]
          ELSE [S |-> S1, err |-> Nil]

SetupSSHKey(S, u, key, io) ==
  IF ~ValidatePublicKey(key) THEN [S |-> S, err |-> "invalid public key format"]
  ELSE IF io = "mkdir" THEN [S |-> S, err |-> "failed to create authorized_keys.d"]
  ELSE LET S1 == [S EXCEPT !.keyDir = TRUE,
                           !.keyFiles = With(S.keyFiles, u,
                               [content |-> KeyFileContent(key),
                                perm |-> <<6, 4, 4>>, owner |-> "root"])]
       IN IF io = "chown" THEN [S |-> S1, err |-> "failed to set ownership"]
          ELSE [S |-> S1, err |-> Nil]

\* the alphabet of base64.StdEncoding
Base64Alphabet ==
  <<"A", "B", "C", "D", "E", "F", "G", "H", "I", "J", "K", "L", "M",
    "N", "O", "P", "Q", "R", "S", "T", "U", "V", "W", "X", "Y", "Z",
    "a", "b", "c", "d", "e", "f", "g", "h", "i", "j", "k", "l", "m",
    "n", "o", "p", "q", "r", "s", "t", "u", "v", "w", "x", "y", "z",
    "0", "1", "2", "3", "4", "5", "6", "7", "8", "9", "+", "/">>

\* the four 6-bit groups of three bytes
Sextets(b1, b2, b3) ==
  <<b1 \div 4, (b1 % 4) * 16 + b2 \div 16, (b2 % 16) * 4 + b3 \div 64, b3 % 64>>

\* base64.StdEncoding.EncodeToString for a whole number of 3-byte blocks
RECURSIVE EncodeToString(_)
EncodeToString(b) ==
  IF Len(b) < 3 THEN <<>>
  ELSE LET x == Sextets(b[1], b[2], b[3])
       IN [i \in 1..4 |-> Base64Alphabet[x[i] + 1]]
            \o EncodeToString(SubSeq(b, 4, Len(b)))

\* the number of random bytes GeneratePassword draws
PasswordBytes == 18

\* the length GeneratePassword truncates to
PasswordLength == 16

\* mutant: the password is cut before '/', '+' and '=' are removed
GeneratePassword_truncateFirst(b) ==
  SelectSeq(SubSeq(EncodeToString(b), 1, PasswordLength),
            LAMBDA c : c \notin {"/", "+", "="})

\* GeneratePassword on the random bytes b
GeneratePassword(b) ==
  LET encoded == EncodeToString(b)
      password == SelectSeq(encoded, LAMBDA c : c \notin {"/", "+", "="})
  IN IF Len(password) > PasswordLength THEN SubSeq(password, 1, PasswordLength)
     ELSE password

SetPassword(S, u, p, io) ==
  IF io # "ok" \/ ~Exists(S, u) THEN [S |-> S, err |-> "failed to set password"]
  ELSE [S |-> [S EXCEPT !.passwd = [i \in 1..Len(S.passwd) |->
                   IF S.passwd[i].name = u
                   THEN [S.passwd[i] EXCEPT !.pw = p] ELSE S.passwd[i]]],
        err |-> Nil]

\* ------------------------------------------------------------------------
\* Lifecycle manager
\* ------------------------------------------------------------------------
ensureGroup(R, g, ok) ==
  IF R.err # Nil \/ LookupGroup(R.S, g) THEN R
  ELSE IF ok THEN [S |-> groupadd(R.S, g), err |-> Nil]
  ELSE [S |-> R.S, err |-> "failed to create group"]

EnsureGroups(S, ok) ==
  ensureGroup(ensureGroup([S |-> S, err |-> Nil], TunnelGroups[1], ok),
              TunnelGroups[2], ok)

blockOne(S, file, u) ==
  LET data == IF file \in DOMAIN S.deny THEN S.deny[file] ELSE <<>>
      found == InSeq(Str(u), splitLines(data))
  IN [S EXCEPT !.deny = With(S.deny, file,
                             IF found THEN data ELSE data \o Str(u) \o <<NL>>)]

blockScheduledTasks(S, u) == blockOne(blockOne(S, DenyFiles[1], u), DenyFiles[2], u)

removeOne(S, file, u) ==
  IF file \notin DOMAIN S.deny THEN S
  ELSE LET lines == splitLines(S.deny[file])
           newLines == SelectSeq(lines, LAMBDA l : l # Str(u))
           joined == Join(newLines, <<NL>>)
           newContent == IF Len(newLines) > 0 /\ ~HasSuffix(joined, NL)
                         THEN joined \o <<NL>> ELSE joined
       IN [S EXCEPT !.deny[file] = newContent]

removeFromDenyFiles(S, u) == removeOne(removeOne(S, DenyFiles[1], u), DenyFiles[2], u)

\* the failures the environment may inject into one Create call
CreateEnv == [groupadd : BOOLEAN, gp : SUBSET GroupSet, acct : BOOLEAN,
              cred : CredOutcomes]

CreateOk == [groupadd |-> TRUE, gp |-> GroupSet, acct |-> TRUE, cred |-> "ok"]

\* the environments that differ from ok in at most MaxFailures commands
Failing(envs, ok) ==
  {e \in envs : Cardinality({f \in DOMAIN e : e[f] # ok[f]}) <= MaxFailures}

\* mutant: only the first group is stripped
stripGroups_firstOnly(S, u, gp) ==
  IF TunnelGroups[1] \in gp THEN gpasswdDel(S, u, TunnelGroups[1]) ELSE S

\* gpasswd -d for both groups; env.gp is the set of calls that succeed
stripGroups(S, u, gp) ==
  LET S1 == IF TunnelGroups[1] \in gp THEN gpasswdDel(S, u, TunnelGroups[1]) ELSE S
  IN IF TunnelGroups[2] \in gp THEN gpasswdDel(S1, u, TunnelGroups[2]) ELSE S1

Create(S, cfg, env) ==
  IF cfg.Username = "" THEN [S |-> S, err |-> "username is required"]
  ELSE
    LET g0 == EnsureGroups(S, env.groupadd)
        userGroup == IF cfg.AuthMode = AuthModeKey THEN GroupKeyAuth
                     ELSE GroupPasswordAuth
    IN IF g0.err # Nil THEN g0
       ELSE IF ~env.acct
       THEN [S |-> IF Exists(g0.S, cfg.Username)
                   THEN stripGroups(g0.S, cfg.Username, env.gp) ELSE g0.S,
             err |-> IF Exists(g0.S, cfg.Username)
                     THEN "failed to update user group" ELSE "failed to create user"]
       ELSE
         LET S1 == IF Exists(g0.S, cfg.Username)
                   THEN usermodAppend(stripGroups(g0.S, cfg.Username, env.gp),
                                      cfg.Username, userGroup)
                   ELSE useradd(g0.S, cfg.Username, userGroup)
             c == IF cfg.AuthMode = AuthModeKey
                  THEN SetupSSHKey(S1, cfg.Username, cfg.PublicKey, env.cred)
                  ELSE SetPassword(S1, cfg.Username, cfg.Password, env.cred)
         IN IF c.err # Nil THEN c
            ELSE [S |-> blockScheduledTasks(c.S, cfg.Username), err |-> Nil]

SwitchAuthMode(S, u, newMode, ok) ==
  IF ~Exists(S, u) \/ ~IsTunnelUser(S, u)
  THEN [S |-> S, err |-> "not a tunnel user"]
  ELSE IF ~ok THEN [S |-> S, err |-> "failed to switch group"]
  ELSE
    LET target == IF newMode = AuthModeKey THEN GroupKeyAuth ELSE GroupPasswordAuth
        S1 == stripGroups(S, u, GroupSet)
        S2 == [S1 EXCEPT !.passwd = [i \in 1..Len(S1.passwd) |->
                 IF S1.passwd[i].name = u /\ S1.passwd[i].gid \in GroupSet
                 THEN [S1.passwd[i] EXCEPT !.gid = target] ELSE S1.passwd[i]]]
    IN [S |-> IF Entry(S2, u).gid = target THEN S2 ELSE usermodAppend(S2, u, target),
        err |-> Nil]

\* the failures the environment may inject into one Delete call
DeleteEnv == [gp : SUBSET GroupSet, del : BOOLEAN, rm : BOOLEAN]

DeleteOk == [gp |-> GroupSet, del |-> TRUE, rm |-> TRUE]

\* mutant: the tunnel-user check is missing
Delete_noGuard(S, u, env) ==
  LET S1 == stripGroups(S, u, env.gp)
  IN IF ~env.del \/ ~Exists(S1, u) THEN [S |-> S1, err |-> "failed to delete user"]
     ELSE [S |-> removeFromDenyFiles(userdel(S1, u), u), err |-> Nil]

Delete(S, u, env) ==
  IF ~IsTunnelUser(S, u) THEN [S |-> S, err |-> "not a tunnel user"]
  ELSE
    LET S1 == stripGroups(S, u, env.gp)
    IN IF ~env.del \/ ~Exists(S1, u) THEN [S |-> S1, err |-> "failed to delete user"]
       ELSE LET S2 == userdel(S1, u)
            IN IF u \in DOMAIN S2.keyFiles
               THEN IF ~env.rm
                    THEN [S |-> S2, err |-> "failed to remove SSH key file"]
                    ELSE [S |-> removeFromDenyFiles(
                                  [S2 EXCEPT !.keyFiles = Without(S2.keyFiles, u)], u),
                          err |-> Nil]
               ELSE [S |-> removeFromDenyFiles(S2, u), err |-> Nil]

\* ------------------------------------------------------------------------
\* Teardown coordinator
\* ------------------------------------------------------------------------
RECURSIVE deleteEach(_, _, _)
deleteEach(R, users, envs) ==
  IF Len(users) = 0 THEN R
  ELSE LET u == Head(users).Username
           d == Delete(R.S, u, envs[u])
       IN deleteEach([S |-> d.S,
                      attempted |-> Append(R.attempted, u),
                      deleted |-> IF d.err = Nil THEN Append(R.deleted, u)
                                  ELSE R.deleted,
                      errors |-> IF d.err # Nil THEN Append(R.errors, u)
                                 ELSE R.errors],
                     Tail(users), envs)

\* mutant: the per-user failures are swallowed
DeleteAllUsers_swallow(S, envs) ==
  LET users == List(S)
      R == deleteEach([S |-> S, attempted |-> <<>>, deleted |-> <<>>,
                       errors |-> <<>>], users, envs)
  IN [S |-> R.S, attempted |-> R.attempted, deleted |-> R.deleted,
      errors |-> R.errors, err |-> Nil]

DeleteAllUsers(S, envs) ==
  LET users == List(S)
      R == deleteEach([S |-> S, attempted |-> <<>>, deleted |-> <<>>,
                       errors |-> <<>>], users, envs)
  IN [S |-> R.S, attempted |-> R.attempted, deleted |-> R.deleted,
      errors |-> R.errors,
      err |-> IF Len(R.errors) > 0 THEN "some users could not be deleted" ELSE Nil]

\* groupdel refuses to remove the primary group of an existing account
deleteGroup(R, g) ==
  IF R.err # Nil \/ ~LookupGroup(R.S, g) THEN R
  ELSE IF \E i \in 1..Len(R.S.passwd) : R.S.passwd[i].gid = g
       THEN [S |-> R.S, err |-> "failed to delete group"]
       ELSE [S |-> groupdel(R.S, g), err |-> Nil]

\* mutant: only the first tunnel group is deleted
DeleteGroups_firstOnly(S) ==
  IF GroupsHaveUsers(S)
  THEN [S |-> S, err |-> "cannot delete groups: tunnel users still exist"]
  ELSE deleteGroup([S |-> S, err |-> Nil], TunnelGroups[1])

DeleteGroups(S) ==
  IF GroupsHaveUsers(S)
  THEN [S |-> S, err |-> "cannot delete groups: tunnel users still exist"]
  ELSE deleteGroup(deleteGroup([S |-> S, err |-> Nil], TunnelGroups[1]),
                   TunnelGroups[2])

\* an entry of authorized_keys.d is a key file or a subdirectory
IsDir(e) == "dir" \in DOMAIN e

\* what the directory accesses of CleanupAuthorizedKeysDir return: whether
\* os.ReadDir and the os.Remove of the directory succeed
KeysDirEnv == [readdir : BOOLEAN, rmdir : BOOLEAN]

KeysDirOk == [readdir |-> TRUE, rmdir |-> TRUE]

\* os.Remove of the directory
removeKeysDir(S, io) ==
  IF io.rmdir THEN [S |-> [S EXCEPT !.keyDir = FALSE], err |-> Nil]
  ELSE [S |-> S, err |-> "remove authorized_keys.d failed"]

\* mutant: every key file is removed, whether its account exists or not
cleanupAuthorizedKeysDir_all(S, io) ==
  IF ~S.keyDir THEN [S |-> S, err |-> Nil]
  ELSE IF ~io.readdir THEN [S |-> S, err |-> "failed to read authorized_keys.d"]
  ELSE IF DOMAIN S.keyFiles = {} THEN removeKeysDir(S, io)
  ELSE LET kept == {n \in DOMAIN S.keyFiles : IsDir(S.keyFiles[n])}
           S1 == [S EXCEPT !.keyFiles = [n \in kept |-> S.keyFiles[n]]]
       IN IF kept = {} THEN removeKeysDir(S1, io) ELSE [S |-> S1, err |-> Nil]

\* CleanupAuthorizedKeysDir with its result
cleanupAuthorizedKeysDir(S, io) ==
  IF ~S.keyDir THEN [S |-> S, err |-> Nil]
  ELSE IF ~io.readdir THEN [S |-> S, err |-> "failed to read authorized_keys.d"]
  ELSE IF DOMAIN S.keyFiles = {} THEN removeKeysDir(S, io)
  ELSE LET kept == {n \in DOMAIN S.keyFiles : IsDir(S.keyFiles[n]) \/ Exists(S, n)}
           S1 == [S EXCEPT !.keyFiles = [n \in kept |-> S.keyFiles[n]]]
       IN IF kept = {} THEN removeKeysDir(S1, io) ELSE [S |-> S1, err |-> Nil]

\* the state CleanupAuthorizedKeysDir leaves when its accesses succeed
CleanupAuthorizedKeysDir(S) == cleanupAuthorizedKeysDir(S, KeysDirOk).S

\* a deny-list line names an existing account iff it is that account's name
ExistsLine(S, line) == Len(line) = 1 /\ Exists(S, line[1])

RECURSIVE concatLines(_)
concatLines(lines) ==
  IF Len(lines) = 0 THEN <<>>
  ELSE (IF Head(lines) # <<>> THEN Head(lines) \o <<NL>> ELSE <<>>)
         \o concatLines(Tail(lines))

cleanupOne(S, file) ==
  IF file \notin DOMAIN S.deny THEN S
  ELSE LET lines == splitLines(S.deny[file])
           newLines == SelectSeq(lines, LAMBDA l : l = <<>> \/ ExistsLine(S, l))
       IN IF Len(newLines) < Len(lines)
          THEN [S EXCEPT !.deny[file] = concatLines(newLines)]
          ELSE S

CleanupDenyFiles(S) == cleanupOne(cleanupOne(S, DenyFiles[1]), DenyFiles[2])

\* ------------------------------------------------------------------------
\* Commands
\* ------------------------------------------------------------------------
\* promptPassword: the typed password, or a generated one when nothing is
\* typed; rnd is what the random source returns
promptPassword(typed, rnd) == IF typed = "" THEN GeneratePassword(rnd) ELSE typed

\* promptPubkey: the form accepts neither an empty nor a malformed key
promptPubkey(typed) == typed # <<>> /\ ValidatePublicKey(typed)

UpdateEnv == [cred : CredOutcomes, sw : BOOLEAN]

UpdateOk == [cred |-> "ok", sw |-> TRUE]

\* runUpdateInteractive: in.choice is the entry picked in the menu, the
\* credential comes from the forms
runUpdateInteractive(S, u, currentMode, in, env) ==
  IF in.choice = "password"
  THEN LET c == SetPassword(S, u, promptPassword(in.Password, in.rnd), env.cred)
       IN IF c.err # Nil THEN c
          ELSE IF currentMode # AuthModePassword
          THEN SwitchAuthMode(c.S, u, AuthModePassword, env.sw)
          ELSE c
  ELSE IF in.choice = "key"
  THEN IF ~promptPubkey(in.PublicKey)
       THEN [S |-> S, err |-> "public key input cancelled"]
       ELSE LET c == SetupSSHKey(S, u, in.PublicKey, env.cred)
            IN IF c.err # Nil THEN c
               ELSE IF currentMode # AuthModeKey
               THEN SwitchAuthMode(c.S, u, AuthModeKey, env.sw)
               ELSE c
  ELSE [S |-> S, err |-> Nil]

\* mutant: the mode is switched before the credential is set
runUpdate_switchFirst(S, cfgd, u, flag, val, env) ==
  IF ~cfgd THEN [S |-> S, err |-> "sshd not configured"]
  ELSE IF ~Exists(S, u) THEN [S |-> S, err |-> "user does not exist"]
  ELSE IF ~IsTunnelUser(S, u) THEN [S |-> S, err |-> "not a tunnel user"]
  ELSE IF flag = "" THEN runUpdateInteractive(S, u, GetAuthMode(S, u), val, env)
  ELSE
    LET currentMode == GetAuthMode(S, u)
        target == IF flag = "insecure-password" THEN AuthModePassword ELSE AuthModeKey
        sw == IF currentMode # target THEN SwitchAuthMode(S, u, target, env.sw)
              ELSE [S |-> S, err |-> Nil]
    IN IF sw.err # Nil THEN sw
       ELSE IF flag = "insecure-password" THEN SetPassword(sw.S, u, val, env.cred)
       ELSE SetupSSHKey(sw.S, u, val, env.cred)

\* runUpdate: flag is the flag that was given and val its value; without a
\* flag (flag = "") val is what the user enters in the forms
runUpdate(S, cfgd, u, flag, val, env) ==
  IF ~cfgd THEN [S |-> S, err |-> "sshd not configured"]
  ELSE IF ~Exists(S, u) THEN [S |-> S, err |-> "user does not exist"]
  ELSE IF ~IsTunnelUser(S, u) THEN [S |-> S, err |-> "not a tunnel user"]
  ELSE IF flag = "" THEN runUpdateInteractive(S, u, GetAuthMode(S, u), val, env)
  ELSE
    LET currentMode == GetAuthMode(S, u)
        target == IF flag = "insecure-password" THEN AuthModePassword ELSE AuthModeKey
        c == IF flag = "insecure-password" THEN SetPassword(S, u, val, env.cred)
             ELSE SetupSSHKey(S, u, val, env.cred)
    IN IF c.err # Nil THEN c
       ELSE IF currentMode # target THEN SwitchAuthMode(c.S, u, target, env.sw)
       ELSE c

\* the environment of the configure command: whether sshdconfig.Configure
\* and fail2ban.SetupWithFeedback succeed
ConfigureEnv == [configure : BOOLEAN, fail2ban : BOOLEAN]

\* mutant: a failure of the fail2ban setup is returned as the command's error
runConfigure_abort(cfgd, noFail2ban, env) ==
  IF ~env.configure
  THEN [configured |-> cfgd, err |-> "failed to configure sshd", warnings |-> <<>>]
  ELSE IF ~noFail2ban /\ ~env.fail2ban
  THEN [configured |-> TRUE, err |-> "fail2ban setup failed", warnings |-> <<>>]
  ELSE [configured |-> TRUE, err |-> Nil, warnings |-> <<>>]

\* runConfigure: noFail2ban is the --no-fail2ban flag
runConfigure(cfgd, noFail2ban, env) ==
  IF ~env.configure
  THEN [configured |-> cfgd, err |-> "failed to configure sshd", warnings |-> <<>>]
  ELSE [configured |-> TRUE, err |-> Nil,
        warnings |-> IF ~noFail2ban /\ ~env.fail2ban
                     THEN <<"fail2ban setup warning">> ELSE <<>>]

\* sshdconfig.RemoveAndReload: removes the drop-in files; ok is whether the
\* removal and the reload succeed
RemoveAndReload(cfgd, ok) ==
  IF ok THEN [configured |-> FALSE, err |-> Nil]
  ELSE [configured |-> cfgd, err |-> "failed to remove sshd config"]

\* the failures the environment may inject into one teardown command
TeardownEnv == [del : [Users -> DeleteEnv], rr : BOOLEAN]

TeardownOk == [del |-> [u \in Users |-> DeleteOk], rr |-> TRUE]

\* mutant: the groups are deleted before the hardening config is removed
Program_groupsFirst(cmd) ==
  IF cmd \in {"uninstallAllCLI", "UninstallAllNonInteractive", "uninstallAll"}
  THEN <<"DeleteAllUsers", "DeleteGroups", "RemoveAndReload",
         "CleanupAuthorizedKeysDir", "CleanupDenyFiles">>
  ELSE <<"DeleteGroups", "RemoveAndReload",
         "CleanupAuthorizedKeysDir", "CleanupDenyFiles">>

\* the steps of each teardown command, in the order of its code
Program(cmd) ==
  CASE cmd = "uninstallAllCLI" ->
         <<"DeleteAllUsers", "RemoveAndReload", "DeleteGroups",
           "CleanupAuthorizedKeysDir", "CleanupDenyFiles">>
    [] cmd = "UninstallAllNonInteractive" ->
         <<"DeleteAllUsers", "RemoveAndReload", "DeleteGroups",
           "CleanupAuthorizedKeysDir", "CleanupDenyFiles">>
    [] cmd = "uninstallAll" ->
         <<"DeleteAllUsers", "RemoveAndReload", "DeleteGroups",
           "CleanupAuthorizedKeysDir", "CleanupDenyFiles">>
    [] cmd = "uninstallConfigCLI" ->
         <<"RemoveAndReload", "DeleteGroups",
           "CleanupAuthorizedKeysDir", "CleanupDenyFiles">>
    [] cmd = "uninstallConfig" ->
         <<"RemoveAndReload", "DeleteGroups",
           "CleanupAuthorizedKeysDir", "CleanupDenyFiles">>

\* whether the command executes the step it has arrived at: p holds the
\* locals the command computed when it started, cfgd is the live
\* IsConfigured()
Runs(p, step, cfgd) ==
  CASE step = "DeleteAllUsers" -> p.hasUsers
    [] step = "RemoveAndReload" ->
         IF p.cmd = "uninstallAllCLI" THEN p.configured
         ELSE IF p.cmd = "uninstallConfigCLI" THEN TRUE
         ELSE cfgd
    [] step = "DeleteGroups" ->
         IF p.cmd = "uninstallAllCLI" THEN p.configured ELSE TRUE
    [] OTHER -> TRUE

\* one step of a teardown command; T.trace lists the steps run so far and
\* T.log the state each of them started from
runStep(T, p, step, env) ==
  IF ~Runs(p, step, T.configured) THEN T
  ELSE
    LET T0 == [T EXCEPT !.trace = Append(@, step),
                        !.log = Append(@, [S |-> T.S, configured |-> T.configured])]
    IN CASE step = "DeleteAllUsers" ->
              LET r == DeleteAllUsers(T.S, env.del)
              IN [T0 EXCEPT !.S = r.S, !.deleted = r.deleted, !.errors = r.errors]
         [] step = "RemoveAndReload" ->
              [T0 EXCEPT !.configured = RemoveAndReload(T.configured, env.rr).configured]
         [] step = "DeleteGroups" ->
              [T0 EXCEPT !.S = DeleteGroups(T.S).S]
         [] step = "CleanupAuthorizedKeysDir" ->
              [T0 EXCEPT !.S = CleanupAuthorizedKeysDir(T.S)]
         [] step = "CleanupDenyFiles" ->
              [T0 EXCEPT !.S = CleanupDenyFiles(T.S)]

RECURSIVE runProgram(_, _, _, _)
runProgram(T, p, steps, env) ==
  IF Len(steps) = 0 THEN T
  ELSE runProgram(runStep(T, p, Head(steps), env), p, Tail(steps), env)

\* a command returns err before its first step
Refused(S, cfgd, err) ==
  [S |-> S, configured |-> cfgd, trace |-> <<>>, log |-> <<>>,
   deleted |-> <<>>, errors |-> <<>>, err |-> err]

\* a command passes its guards and runs its steps
Run(cmd, S, cfgd, hasUsers, env) ==
  runProgram(Refused(S, cfgd, Nil),
             [cmd |-> cmd, hasUsers |-> hasUsers, configured |-> cfgd],
             Program(cmd), env)

uninstallAllCLI(S, cfgd, env) ==
  LET hasUsers == Len(List(S)) > 0
  IN IF ~cfgd /\ ~hasUsers THEN Refused(S, cfgd, "nothing to uninstall")
     ELSE IF cfgd /\ ~hasUsers THEN Refused(S, cfgd, "no tunnel users found")
     ELSE IF ~cfgd /\ hasUsers THEN Refused(S, cfgd, "sshd is not configured")
     ELSE Run("uninstallAllCLI", S, cfgd, hasUsers, env)

UninstallAllNonInteractive(S, cfgd, env) ==
  Run("UninstallAllNonInteractive", S, cfgd, Len(List(S)) > 0, env)

uninstallAll(S, cfgd, confirm, env) ==
  IF ~confirm THEN Refused(S, cfgd, "cancelled")
  ELSE Run("uninstallAll", S, cfgd, Len(List(S)) > 0, env)

\* mutant: the check for remaining tunnel users is missing
uninstallConfigCLI_noGuard(S, cfgd, env) ==
  IF ~cfgd THEN Refused(S, cfgd, "sshd is not configured")
  ELSE Run("uninstallConfigCLI", S, cfgd, FALSE, env)

uninstallConfigCLI(S, cfgd, env) ==
  IF ~cfgd THEN Refused(S, cfgd, "sshd is not configured")
  ELSE IF GroupsHaveUsers(S)
  THEN Refused(S, cfgd, "cannot remove configuration: tunnel users still exist")
  ELSE Run("uninstallConfigCLI", S, cfgd, FALSE, env)

uninstallConfig(S, cfgd, confirm, env) ==
  IF GroupsHaveUsers(S)
  THEN Refused(S, cfgd, "cannot remove configuration: tunnel users still exist")
  ELSE IF ~confirm THEN Refused(S, cfgd, "cancelled")
  ELSE Run("uninstallConfig", S, cfgd, FALSE, env)

\* ------------------------------------------------------------------------
\* Menu handlers
\* ------------------------------------------------------------------------
\* createUserInteractive: the forms accept neither an empty or existing
\* username nor an empty or malformed key; a user who gives up on a form
\* cancels the handler
createUserInteractive(S, in, env) ==
  IF in.Username = "" \/ Exists(S, in.Username)
  THEN [S |-> S, err |-> "user aborted"]
  ELSE IF in.AuthMode = AuthModeKey
  THEN IF ~ValidatePublicKey(in.PublicKey) THEN [S |-> S, err |-> "user aborted"]
       ELSE Create(S, [Username |-> in.Username, AuthMode |-> AuthModeKey,
                       Password |-> "", PublicKey |-> in.PublicKey], env)
  ELSE Create(S, [Username |-> in.Username, AuthMode |-> AuthModePassword,
                  Password |-> promptPassword(in.Password, in.rnd),
                  PublicKey |-> <<>>], env)

updateUserPassword(S, u, currentMode, in, env) ==
  LET c == SetPassword(S, u, promptPassword(in.Password, in.rnd), env.cred)
  IN IF c.err # Nil THEN c
     ELSE IF currentMode # AuthModePassword
     THEN SwitchAuthMode(c.S, u, AuthModePassword, env.sw)
     ELSE c

updateUserKey(S, u, currentMode, in, env) ==
  IF ~promptPubkey(in.PublicKey) THEN [S |-> S, err |-> "cancelled"]
  ELSE LET c == SetupSSHKey(S, u, in.PublicKey, env.cred)
       IN IF c.err # Nil THEN c
          ELSE IF currentMode # AuthModeKey
          THEN SwitchAuthMode(c.S, u, AuthModeKey, env.sw)
          ELSE c

\* in.choice is the entry picked in the update menu
showUpdateUserMenu(S, u, currentMode, in, env) ==
  IF in.choice = "password" THEN updateUserPassword(S, u, currentMode, in, env)
  ELSE IF in.choice = "key" THEN updateUserKey(S, u, currentMode, in, env)
  ELSE [S |-> S, err |-> "cancelled"]

\* the entries of a user selection: the listed users and "Back"
Offered(S, u) == \E i \in 1..Len(List(S)) : List(S)[i].Username = u

updateUserInteractive(S, in, env) ==
  IF Len(List(S)) = 0 THEN [S |-> S, err |-> Nil]
  ELSE IF ~Offered(S, in.Username) THEN [S |-> S, err |-> "cancelled"]
  ELSE showUpdateUserMenu(S, in.Username, GetAuthMode(S, in.Username), in, env)

\* listUsersBox prints the list and changes nothing
listUsersBox(S) == [S |-> S, err |-> Nil]

deleteUserInteractive(S, in, env) ==
  IF Len(List(S)) = 0 THEN [S |-> S, err |-> Nil]
  ELSE IF ~Offered(S, in.Username) \/ ~in.confirm THEN [S |-> S, err |-> "cancelled"]
  ELSE Delete(S, in.Username, env)

\* the menu choices that need the hardening configuration
MenuChoices == {"create", "update", "list", "delete"}

\* mutant: the menu does not look at the configuration
handleChoice_noGuard(S, cfgd, choice, in, env) ==
  IF choice = "create" THEN createUserInteractive(S, in, env.create)
  ELSE IF choice = "update" THEN updateUserInteractive(S, in, env.update)
  ELSE IF choice = "list" THEN listUsersBox(S)
  ELSE IF choice = "delete" THEN deleteUserInteractive(S, in, env.delete)
  ELSE [S |-> S, err |-> Nil]

\* handleChoice for the user-management choices; env holds the environment
\* of each handler
handleChoice(S, cfgd, choice, in, env) ==
  IF choice \in MenuChoices /\ ~cfgd
  THEN [S |-> S, err |-> "please run 'Configure sshd hardening' first"]
  ELSE IF choice = "create" THEN createUserInteractive(S, in, env.create)
  ELSE IF choice = "update" THEN updateUserInteractive(S, in, env.update)
  ELSE IF choice = "list" THEN listUsersBox(S)
  ELSE IF choice = "delete" THEN deleteUserInteractive(S, in, env.delete)
  ELSE [S |-> S, err |-> Nil]

\* ------------------------------------------------------------------------
\* Command handlers
\* ------------------------------------------------------------------------
\* the environment of a create command: that of its Create call, and whether
\* sshdconfig.AddAuthorizedKeysDirective succeeds
RunCreateEnv == [create : CreateEnv, directive : BOOLEAN]

RunCreateOk == [create |-> CreateOk, directive |-> TRUE]

\* the end of a create command: after a successful key-mode Create the
\* directive is added, and its failure is printed as a warning
addDirective(r, mode, ok) ==
  [S |-> r.S, err |-> r.err,
   warnings |-> IF r.err = Nil /\ mode = AuthModeKey /\ ~ok
                THEN <<"Could not add AuthorizedKeysFile directive">> ELSE <<>>]

\* mutant: a failure of the directive step is returned as the command's error
runCreateCLI_abort(S, args, password, pubkey, env) ==
  IF Len(args) = 0 THEN [S |-> S, err |-> "username required", warnings |-> <<>>]
  ELSE IF password # "" /\ pubkey # <<>>
  THEN [S |-> S, err |-> "cannot specify both --insecure-password and --pubkey",
        warnings |-> <<>>]
  ELSE IF Exists(S, args[1])
  THEN [S |-> S, err |-> "user already exists", warnings |-> <<>>]
  ELSE IF pubkey # <<>>
  THEN LET r == Create(S, [Username |-> args[1], AuthMode |-> AuthModeKey,
                           Password |-> "", PublicKey |-> pubkey], env.create)
       IN IF r.err = Nil /\ ~env.directive
          THEN [S |-> r.S, err |-> "Could not add AuthorizedKeysFile directive",
                warnings |-> <<>>]
          ELSE addDirective(r, AuthModeKey, env.directive)
  ELSE addDirective(Create(S, [Username |-> args[1], AuthMode |-> AuthModePassword,
                               Password |-> password, PublicKey |-> <<>>],
                           env.create),
                    AuthModePassword, env.directive)

\* runCreateCLI: password and pubkey are the values of the --insecure-password
\* and --pubkey flags
runCreateCLI(S, args, password, pubkey, env) ==
  IF Len(args) = 0 THEN [S |-> S, err |-> "username required", warnings |-> <<>>]
  ELSE IF password # "" /\ pubkey # <<>>
  THEN [S |-> S, err |-> "cannot specify both --insecure-password and --pubkey",
        warnings |-> <<>>]
  ELSE IF Exists(S, args[1])
  THEN [S |-> S, err |-> "user already exists", warnings |-> <<>>]
  ELSE IF pubkey # <<>>
  THEN addDirective(Create(S, [Username |-> args[1], AuthMode |-> AuthModeKey,
                               Password |-> "", PublicKey |-> pubkey], env.create),
                    AuthModeKey, env.directive)
  ELSE addDirective(Create(S, [Username |-> args[1], AuthMode |-> AuthModePassword,
                               Password |-> password, PublicKey |-> <<>>],
                           env.create),
                    AuthModePassword, env.directive)

\* runCreateInteractive: the username comes from the arguments or from the
\* form, the rest from the forms
runCreateInteractive(S, args, in, env) ==
  IF Len(args) > 0 /\ Exists(S, args[1])
  THEN [S |-> S, err |-> "user already exists", warnings |-> <<>>]
  ELSE IF Len(args) = 0 /\ (in.Username = "" \/ Exists(S, in.Username))
  THEN [S |-> S, err |-> "username required", warnings |-> <<>>]
  ELSE IF in.AuthMode = AuthModeKey /\ ~promptPubkey(in.PublicKey)
  THEN [S |-> S, err |-> "public key input cancelled", warnings |-> <<>>]
  ELSE LET username == IF Len(args) > 0 THEN args[1] ELSE in.Username
       IN IF in.AuthMode = AuthModeKey
          THEN addDirective(Create(S, [Username |-> username, AuthMode |-> AuthModeKey,
                                       Password |-> "", PublicKey |-> in.PublicKey],
                                   env.create),
                            AuthModeKey, env.directive)
          ELSE addDirective(Create(S, [Username |-> username,
                                       AuthMode |-> AuthModePassword,
                                       Password |-> promptPassword(in.Password, in.rnd),
                                       PublicKey |-> <<>>], env.create),
                            AuthModePassword, env.directive)

\* mutant: the command does not look at the configuration
runCreate_noGuard(S, cfgd, cliMode, args, password, pubkey, in, env) ==
  IF cliMode THEN runCreateCLI(S, args, password, pubkey, env)
  ELSE runCreateInteractive(S, args, in, env)

\* runCreate: cliMode is whether one of the two flags was given
runCreate(S, cfgd, cliMode, args, password, pubkey, in, env) ==
  IF ~cfgd THEN [S |-> S, err |-> "sshd not configured", warnings |-> <<>>]
  ELSE IF cliMode THEN runCreateCLI(S, args, password, pubkey, env)
  ELSE runCreateInteractive(S, args, in, env)

runList(S, cfgd) ==
  IF ~cfgd THEN [S |-> S, err |-> "sshd not configured", users |-> <<>>]
  ELSE [S |-> S, err |-> Nil, users |-> List(S)]

runDelete(S, cfgd, u, env) ==
  IF ~cfgd THEN [S |-> S, err |-> "sshd not configured"]
  ELSE IF ~IsTunnelUser(S, u) THEN [S |-> S, err |-> "not a tunnel user"]
  ELSE Delete(S, u, env)

\* ------------------------------------------------------------------------
\* State machine
\* ------------------------------------------------------------------------
Install(S) ==
  /\ passwd' = S.passwd
  /\ group' = S.group
  /\ keyDir' = S.keyDir
  /\ keyFiles' = S.keyFiles
  /\ deny' = S.deny
  /\ createPubkey' = createPubkey
  /\ inst' = inst

\* the account the lifecycle specification drives
Subject == "a"

\* a host on which the tool has not run yet: no tunnel group, a cron.deny
\* with an unrelated entry and no at.deny; the subject is absent or is an
\* ordinary account
Init ==
  /\ \/ passwd = <<>>
     \/ passwd = <<[name |-> Subject, gid |-> OtherGroup, pw |-> NoPassword]>>
  /\ group = <<>>
  /\ keyDir = FALSE
  /\ keyFiles = <<>>
  /\ deny = [f \in {CronDeny} |-> <<Ghost, NL>>]
  /\ configured = FALSE
  /\ createPubkey = <<>>
  /\ inst = <<>>

\* sshdconfig.Configure
Configure ==
  /\ configured' = TRUE
  /\ UNCHANGED <<passwd, group, keyDir, keyFiles, deny, createPubkey, inst>>

\* the arguments of a Create call for the usernames names
CreateInputs(names) ==
  [Username : names, AuthMode : {AuthModePassword},
   Password : Passwords, PublicKey : {<<>>}]
  \cup [Username : names, AuthMode : {AuthModeKey},
        Password : {""}, PublicKey : PublicKeys]

\* what the user enters in the forms of the menu and of the create command
FormInputs ==
  [Username : {Subject, ""}, AuthMode : AuthModes,
   choice : {"password", "key", "back"}, Password : Passwords,
   PublicKey : PublicKeys, rnd : {<<>>}, confirm : BOOLEAN]

HandlerOk == [create |-> CreateOk, update |-> UpdateOk, delete |-> DeleteOk]

DoCreate ==
  /\ \E cfg \in CreateInputs({Subject, ""}), env \in Failing(CreateEnv, CreateOk) :
       Install(Create(Sys, cfg, env).S)
  /\ UNCHANGED configured

DoSwitchAuthMode ==
  /\ \E m \in AuthModes, ok \in BOOLEAN :
       Install(SwitchAuthMode(Sys, Subject, m, ok).S)
  /\ UNCHANGED configured

DoUpdate ==
  /\ \E env \in Failing(UpdateEnv, UpdateOk) :
       \/ \E p \in Passwords :
            Install(runUpdate(Sys, configured, Subject, "insecure-password", p, env).S)
       \/ \E k \in PublicKeys :
            Install(runUpdate(Sys, configured, Subject, "pubkey", k, env).S)
       \/ \E in \in FormInputs :
            Install(runUpdate(Sys, configured, Subject, "", in, env).S)
  /\ UNCHANGED configured

DoDelete ==
  /\ \E env \in Failing(DeleteEnv, DeleteOk) :
       Install(Delete(Sys, Subject, env).S)
  /\ UNCHANGED configured

DoRunCreate ==
  /\ \E cliMode \in BOOLEAN, args \in {<<>>, <<Subject>>}, p \in Passwords \cup {""},
        k \in PublicKeys \cup {<<>>}, in \in FormInputs, d \in BOOLEAN :
       Install(runCreate(Sys, configured, cliMode, args, p, k, in,
                         [create |-> CreateOk, directive |-> d]).S)
  /\ UNCHANGED configured

DoRunConfigure ==
  /\ \E noFail2ban \in BOOLEAN, env \in ConfigureEnv :
       configured' = runConfigure(configured, noFail2ban, env).configured
  /\ UNCHANGED <<passwd, group, keyDir, keyFiles, deny, createPubkey, inst>>

DoRunList ==
  /\ Install(runList(Sys, configured).S)
  /\ UNCHANGED configured

DoRunDelete ==
  /\ Install(runDelete(Sys, configured, Subject, DeleteOk).S)
  /\ UNCHANGED configured

DoHandleChoice ==
  /\ \E choice \in MenuChoices, in \in FormInputs :
       Install(handleChoice(Sys, configured, choice, in, HandlerOk).S)
  /\ UNCHANGED configured

Next ==
  \/ Configure
  \/ DoCreate
  \/ DoSwitchAuthMode
  \/ DoUpdate
  \/ DoDelete
  \/ DoRunConfigure
  \/ DoRunCreate
  \/ DoRunList
  \/ DoRunDelete
  \/ DoHandleChoice

Spec == Init /\ [][Next]_vars

\* ------------------------------------------------------------------------
\* Teardown specification: two users, every Create succeeds, the teardown
\* operations run with injected failures
\* ------------------------------------------------------------------------
InitTeardown ==
  /\ passwd = <<[name |-> "b", gid |-> OtherGroup, pw |-> NoPassword]>>
  /\ group = <<>>
  /\ keyDir = FALSE
  /\ keyFiles = <<>>
  /\ deny = [f \in {CronDeny} |-> <<Ghost, NL>>]
  /\ configured = FALSE
  /\ createPubkey = <<>>
  /\ inst = <<>>

DoCreateOk ==
  /\ \E cfg \in CreateInputs(Users) :
       /\ cfg.AuthMode = AuthModeKey => cfg.PublicKey = GoodKey
       /\ Install(Create(Sys, cfg, CreateOk).S)
  /\ UNCHANGED configured

\* the ways one Delete call fails: userdel fails, the key file cannot be
\* removed, gpasswd and userdel both fail
DeleteFailures ==
  {[DeleteOk EXCEPT !.del = FALSE], [DeleteOk EXCEPT !.rm = FALSE],
   [DeleteOk EXCEPT !.gp = {}, !.del = FALSE]}

\* the teardown environments in which the Delete of at most MaxFailures
\* users fails
TeardownFailing ==
  {e \in [del : [Users -> {DeleteOk} \cup DeleteFailures], rr : BOOLEAN] :
     Cardinality({u \in Users : e.del[u] # DeleteOk}) <= MaxFailures}

DoDeleteAllUsers ==
  /\ \E env \in TeardownFailing : Install(DeleteAllUsers(Sys, env.del).S)
  /\ UNCHANGED configured

DoDeleteGroups ==
  /\ Install(DeleteGroups(Sys).S)
  /\ UNCHANGED configured

DoCleanupAuthorizedKeysDir ==
  /\ Install(CleanupAuthorizedKeysDir(Sys))
  /\ UNCHANGED configured

DoCleanupDenyFiles ==
  /\ Install(CleanupDenyFiles(Sys))
  /\ UNCHANGED configured

Finish(T) == Install(T.S) /\ configured' = T.configured

DoUninstallAllCLI ==
  \E env \in TeardownFailing : Finish(uninstallAllCLI(Sys, configured, env))

DoUninstallAllNonInteractive ==
  \E env \in TeardownFailing : Finish(UninstallAllNonInteractive(Sys, configured, env))

DoUninstallAll ==
  \E env \in TeardownFailing, confirm \in BOOLEAN :
    Finish(uninstallAll(Sys, configured, confirm, env))

DoUninstallConfigCLI ==
  \E rr \in BOOLEAN :
    Finish(uninstallConfigCLI(Sys, configured, [TeardownOk EXCEPT !.rr = rr]))

DoUninstallConfig ==
  \E rr \in BOOLEAN, confirm \in BOOLEAN :
    Finish(uninstallConfig(Sys, configured, confirm, [TeardownOk EXCEPT !.rr = rr]))

NextTeardown ==
  \/ Configure
  \/ DoCreateOk
  \/ DoDeleteAllUsers
  \/ DoDeleteGroups
  \/ DoCleanupAuthorizedKeysDir
  \/ DoCleanupDenyFiles
  \/ DoUninstallAllCLI
  \/ DoUninstallAllNonInteractive
  \/ DoUninstallAll
  \/ DoUninstallConfigCLI
  \/ DoUninstallConfig

SpecTeardown == InitTeardown /\ [][NextTeardown]_vars

\* ------------------------------------------------------------------------
\* Success specification: two users, only calls that return without error
\* ------------------------------------------------------------------------
CreateSuccess ==
  /\ \E cfg \in CreateInputs(Users), env \in Failing(CreateEnv, CreateOk) :
       LET r == Create(Sys, cfg, env)
       IN r.err = Nil /\ Install(r.S)
  /\ UNCHANGED configured

SwitchSuccess ==
  /\ \E u \in Users, m \in AuthModes :
       LET r == SwitchAuthMode(Sys, u, m, TRUE)
       IN r.err = Nil /\ Install(r.S)
  /\ UNCHANGED configured

UpdateSuccess ==
  /\ \E u \in Users :
       \/ \E p \in Passwords :
            LET r == runUpdate(Sys, configured, u, "insecure-password", p, UpdateOk)
            IN r.err = Nil /\ Install(r.S)
       \/ \E k \in PublicKeys :
            LET r == runUpdate(Sys, configured, u, "pubkey", k, UpdateOk)
            IN r.err = Nil /\ Install(r.S)
  /\ UNCHANGED configured

DeleteSuccess ==
  /\ \E u \in Users, env \in Failing(DeleteEnv, DeleteOk) :
       LET r == Delete(Sys, u, env)
       IN r.err = Nil /\ Install(r.S)
  /\ UNCHANGED configured

NextSuccess ==
  \/ Configure
  \/ CreateSuccess
  \/ SwitchSuccess
  \/ UpdateSuccess
  \/ DeleteSuccess

SpecSuccess == InitTeardown /\ [][NextSuccess]_vars

\* ------------------------------------------------------------------------
\* Files specification: deny-lists of arbitrary content
\* ------------------------------------------------------------------------
AllStrings(n) == UNION {[1..k -> Chars] : k \in 0..n}

InitFiles ==
  /\ passwd = <<>>
  /\ group = <<>>
  /\ keyDir = FALSE
  /\ keyFiles = <<>>
  /\ \E c \in AllStrings(MaxDenyLen) : deny = [f \in DenyFileSet |-> c]
  /\ configured = FALSE
  /\ createPubkey = <<>>
  /\ inst = <<>>

FilesCreate ==
  /\ \E cfg \in CreateInputs(Users) :
       /\ cfg.AuthMode = AuthModePassword
       /\ Install(Create(Sys, cfg, CreateOk).S)
  /\ UNCHANGED configured

FilesDelete ==
  /\ \E u \in Users : Install(Delete(Sys, u, DeleteOk).S)
  /\ UNCHANGED configured

NextFiles ==
  \/ FilesCreate
  \/ FilesDelete
  \/ DoCleanupDenyFiles

SpecFiles == InitFiles /\ [][NextFiles]_vars

\* ------------------------------------------------------------------------
\* Password specification: accounts created from the menu with a generated
\* password
\* ------------------------------------------------------------------------
\* 3-byte blocks of random data: they encode to "ABCD", "abcd", "AB+/" and
\* "////"
RandomBlocks ==
  {<<0, 16, 131>>, <<105, 183, 29>>, <<0, 31, 191>>, <<255, 255, 255>>}

RECURSIVE Flatten(_)
Flatten(blocks) ==
  IF Len(blocks) = 0 THEN <<>> ELSE Head(blocks) \o Flatten(Tail(blocks))

\* the values of the random source: PasswordBytes bytes made of RandomBlocks
RandomInputs ==
  {Flatten(bs) : bs \in [1..(PasswordBytes \div 3) -> RandomBlocks]}

InitPassword ==
  /\ passwd = <<>>
  /\ group = <<>>
  /\ keyDir = FALSE
  /\ keyFiles = <<>>
  /\ deny = [f \in {CronDeny} |-> <<Ghost, NL>>]
  /\ configured = TRUE
  /\ createPubkey = <<>>
  /\ inst = <<>>

PasswordCreate ==
  /\ \E rnd \in RandomInputs :
       Install(createUserInteractive(Sys,
                 [Username |-> Subject, AuthMode |-> AuthModePassword, Password |-> "",
                  PublicKey |-> <<>>, rnd |-> rnd], CreateOk).S)
  /\ UNCHANGED configured

PasswordDelete ==
  /\ Install(Delete(Sys, Subject, DeleteOk).S)
  /\ UNCHANGED configured

NextPassword ==
  \/ PasswordCreate
  \/ PasswordDelete

SpecPassword == InitPassword /\ [][NextPassword]_vars

\* ------------------------------------------------------------------------
\* Keys specification: the create command run with an arbitrary --pubkey
\* value
\* ------------------------------------------------------------------------
KeyLexemes == {"ssh-ed25519", EcdsaPrefix, "2", " ", NL, "AAAA", "not-a-key"}
MaxKeyLen == 4

\* the values of the --pubkey flag
KeyInputs == UNION {[1..n -> KeyLexemes] : n \in 0..MaxKeyLen}

\* the forms are not shown when a flag is given
NoForm == [Username |-> "", AuthMode |-> AuthModePassword, choice |-> "back",
           Password |-> "", PublicKey |-> <<>>, rnd |-> <<>>, confirm |-> FALSE]

InitKeys ==
  /\ passwd = <<>>
  /\ group = <<>>
  /\ keyDir = FALSE
  /\ keyFiles = <<>>
  /\ deny = [f \in {CronDeny} |-> <<Ghost, NL>>]
  /\ configured \in BOOLEAN
  /\ createPubkey \in KeyInputs
  /\ inst = <<>>

KeysCreate ==
  /\ Install(runCreate(Sys, configured, TRUE, <<Subject>>, "", createPubkey,
                       NoForm, RunCreateOk).S)
  /\ UNCHANGED configured

KeysDelete ==
  /\ Install(runDelete(Sys, configured, Subject, DeleteOk).S)
  /\ UNCHANGED configured

NextKeys ==
  \/ KeysCreate
  \/ KeysDelete

SpecKeys == InitKeys /\ [][NextKeys]_vars

\* ------------------------------------------------------------------------
\* Race specification: two instances of the tool run at the same time, one
\* removing deny-list entries (Delete of the first user, or
\* CleanupDenyFiles) and one creating the second user.  Each file access is
\* a step of its own; inst holds the position and the locals of the two
\* instances
\* ------------------------------------------------------------------------
RaceOld == "a"
RaceNew == "b"

\* os.ReadFile and the computation that follows it in removeFromDenyFiles
\* (kind "Delete") or CleanupDenyFiles: whether the file is written back,
\* and the content to write
readDeny(S, file, kind, u) ==
  IF file \notin DOMAIN S.deny THEN [write |-> FALSE, content |-> <<>>]
  ELSE IF kind = "Delete"
  THEN [write |-> TRUE, content |-> removeOne(S, file, u).deny[file]]
  ELSE [write |-> cleanupOne(S, file) # S, content |-> cleanupOne(S, file).deny[file]]

\* mutant: the file is read again and filtered at the time of the write
writeDeny_reread(S, file, l) ==
  IF l.kind = "Delete" THEN removeOne(S, file, l.u) ELSE cleanupOne(S, file)

\* os.WriteFile with the content computed after the read; l holds the
\* locals of the removing instance
writeDeny(S, file, l) ==
  IF l.write THEN [S EXCEPT !.deny = With(S.deny, file, l.content)] ELSE S

\* blockScheduledTasks up to its test: the file is created when missing,
\* read, and searched for the username
statDeny(S, file) ==
  IF file \in DOMAIN S.deny THEN S ELSE [S EXCEPT !.deny = With(S.deny, file, <<>>)]

foundIn(S, file, u) == InSeq(Str(u), splitLines(S.deny[file]))

\* the write through a descriptor opened with O_APPEND
appendDeny(S, file, u) == [S EXCEPT !.deny[file] = @ \o Str(u) \o <<NL>>]

\* Delete and Create up to their deny-list calls
deleteAccount(S, u) == [Delete(S, u, DeleteOk).S EXCEPT !.deny = S.deny]

createAccount(S, cfg) == [Create(S, cfg, CreateOk).S EXCEPT !.deny = S.deny]

\* a host with one tunnel user, as a successful Create leaves it
RaceHosts ==
  {Create([passwd |-> <<>>, group |-> <<>>, keyDir |-> FALSE, keyFiles |-> <<>>,
           deny |-> [f \in {CronDeny} |-> <<Ghost, NL>>]], cfg, CreateOk).S :
     cfg \in {c \in CreateInputs({RaceOld}) :
               c.AuthMode = AuthModeKey => c.PublicKey = GoodKey}}

InitRace ==
  /\ \E S \in RaceHosts :
       /\ passwd = S.passwd
       /\ group = S.group
       /\ keyDir = S.keyDir
       /\ keyFiles = S.keyFiles
       /\ deny = S.deny
  /\ configured = TRUE
  /\ createPubkey = <<>>
  /\ \E kind \in {"Delete", "CleanupDenyFiles"},
        cfg \in {c \in CreateInputs({RaceNew}) :
                  c.AuthMode = AuthModeKey => c.PublicKey = GoodKey} :
       inst = [rem |-> [kind |-> kind, u |-> RaceOld,
                        pc |-> IF kind = "Delete" THEN "account" ELSE "read",
                        i |-> 1, write |-> FALSE, content |-> <<>>],
               cre |-> [cfg |-> cfg, pc |-> "account", i |-> 1, found |-> FALSE]]

\* a step of an instance leaves S as the state of the host
Store(S) ==
  /\ passwd' = S.passwd
  /\ group' = S.group
  /\ keyDir' = S.keyDir
  /\ keyFiles' = S.keyFiles
  /\ deny' = S.deny

\* the removing instance
RemAccount ==
  /\ inst.rem.pc = "account"
  /\ Store(deleteAccount(Sys, inst.rem.u))
  /\ inst' = [inst EXCEPT !.rem.pc = "read"]
  /\ UNCHANGED <<configured, createPubkey>>

RemRead ==
  /\ inst.rem.pc = "read"
  /\ LET r == readDeny(Sys, DenyFiles[inst.rem.i], inst.rem.kind, inst.rem.u)
     IN inst' = [inst EXCEPT !.rem.pc = "write", !.rem.write = r.write,
                             !.rem.content = r.content]
  /\ UNCHANGED <<passwd, group, keyDir, keyFiles, deny, configured, createPubkey>>

RemWrite ==
  /\ inst.rem.pc = "write"
  /\ Store(writeDeny(Sys, DenyFiles[inst.rem.i], inst.rem))
  /\ inst' = [inst EXCEPT !.rem.pc = IF inst.rem.i = Len(DenyFiles) THEN "done" ELSE "read",
                          !.rem.i = IF inst.rem.i = Len(DenyFiles) THEN @ ELSE @ + 1,
                          !.rem.write = FALSE, !.rem.content = <<>>]
  /\ UNCHANGED <<configured, createPubkey>>

\* the creating instance
CreAccount ==
  /\ inst.cre.pc = "account"
  /\ Store(createAccount(Sys, inst.cre.cfg))
  /\ inst' = [inst EXCEPT !.cre.pc = "read"]
  /\ UNCHANGED <<configured, createPubkey>>

CreRead ==
  /\ inst.cre.pc = "read"
  /\ Store(statDeny(Sys, DenyFiles[inst.cre.i]))
  /\ inst' = [inst EXCEPT !.cre.pc = "append",
                          !.cre.found = foundIn(statDeny(Sys, DenyFiles[inst.cre.i]),
                                                DenyFiles[inst.cre.i],
                                                inst.cre.cfg.Username)]
  /\ UNCHANGED <<configured, createPubkey>>

CreAppend ==
  /\ inst.cre.pc = "append"
  /\ Store(IF inst.cre.found THEN Sys
             ELSE appendDeny(Sys, DenyFiles[inst.cre.i], inst.cre.cfg.Username))
  /\ inst' = [inst EXCEPT !.cre.pc = IF inst.cre.i = Len(DenyFiles) THEN "done" ELSE "read",
                          !.cre.i = IF inst.cre.i = Len(DenyFiles) THEN @ ELSE @ + 1,
                          !.cre.found = FALSE]
  /\ UNCHANGED <<configured, createPubkey>>

NextRace ==
  \/ RemAccount
  \/ RemRead
  \/ RemWrite
  \/ CreAccount
  \/ CreRead
  \/ CreAppend

SpecRace == InitRace /\ [][NextRace]_vars

\* ------------------------------------------------------------------------
\* Key-directory specification: an authorized_keys.d that holds key files
\* of existing accounts, key files nobody owns any more, and a subdirectory
\* ------------------------------------------------------------------------
SubDir == "d"
KeyFileNames == Users \cup {Ghost}

\* a key file as SetupSSHKey writes it
GoodKeyFile == [content |-> KeyFileContent(GoodKey), perm |-> <<6, 4, 4>>, owner |-> "root"]

\* the contents an existing directory may have
KeyDirContents ==
  {[n \in names |-> IF n = SubDir THEN [dir |-> TRUE] ELSE GoodKeyFile] :
     names \in SUBSET (KeyFileNames \cup {SubDir})}

InitKeyDir ==
  /\ passwd \in {<<>>, <<[name |-> "b", gid |-> OtherGroup, pw |-> NoPassword]>>}
  /\ group = <<>>
  /\ \/ keyDir = FALSE /\ keyFiles = <<>>
     \/ keyDir = TRUE /\ keyFiles \in KeyDirContents
  /\ deny = [f \in {CronDeny} |-> <<Ghost, NL>>]
  /\ configured = TRUE
  /\ createPubkey = <<>>
  /\ inst = <<>>

KeyDirCreate ==
  /\ ~Exists(Sys, Subject)
  /\ \E cfg \in CreateInputs({Subject}) :
       /\ cfg.AuthMode = AuthModeKey => cfg.PublicKey = GoodKey
       /\ Install(Create(Sys, cfg, CreateOk).S)
  /\ UNCHANGED configured

KeyDirDelete ==
  /\ \E env \in Failing(DeleteEnv, DeleteOk) : Install(Delete(Sys, Subject, env).S)
  /\ UNCHANGED configured

KeyDirCleanup ==
  /\ \E io \in KeysDirEnv : Install(cleanupAuthorizedKeysDir(Sys, io).S)
  /\ UNCHANGED configured

NextKeyDir ==
  \/ KeyDirCreate
  \/ KeyDirDelete
  \/ KeyDirCleanup

SpecKeyDir == InitKeyDir /\ [][NextKeyDir]_vars

\* ------------------------------------------------------------------------
\* Claims
\* ------------------------------------------------------------------------
\* u is a member of g in S, by the member list of /etc/group or by the
\* primary group of its /etc/passwd entry
MemberOf(S, u, g) ==
  \/ g \in DOMAIN S.group /\ InSeq(u, S.group[g])
  \/ \E i \in 1..Len(S.passwd) : S.passwd[i].name = u /\ S.passwd[i].gid = g

\* the number of entries of a List() result whose username is u
Entries(users, u) == Cardinality({i \in 1..Len(users) : users[i].Username = u})

PasswordCfg(u, p) ==
  [Username |-> u, AuthMode |-> AuthModePassword, Password |-> p, PublicKey |-> <<>>]

KeyCfg(u, k) ==
  [Username |-> u, AuthMode |-> AuthModeKey, Password |-> "", PublicKey |-> k]

\* C1: after any sequence of successful Create, SwitchAuthMode and Delete
\* calls, no account is a member (primary or supplementary) of both
\* sshtunnel-password and sshtunnel-key.
C1_AtMostOneGroup ==
  \A u \in Users :
    ~(MemberOf(Sys, u, GroupPasswordAuth) /\ MemberOf(Sys, u, GroupKeyAuth))

\* C2: whenever Create(U, password) returns without error for a non-empty
\* username U, GetAuthMode(U) is password and List() has exactly one entry
\* for U.
C2_CreatePassword ==
  \A u \in Users, p \in Passwords, env \in CreateEnv :
    LET r == Create(Sys, PasswordCfg(u, p), env)
    IN r.err = Nil =>
         /\ GetAuthMode(r.S, u) = AuthModePassword
         /\ Entries(List(r.S), u) = 1

\* C2 witness: Create(U, password) has run on an account whose primary
\* group is sshtunnel-key; U now has a password, reads as password mode and
\* is listed once.
C2_Witness ==
  /\ isPrimaryGroup(Sys, Subject, GroupKeyAuth)
  /\ InSeq(Subject, getGroupMembers(Sys, GroupPasswordAuth))
  /\ Entry(Sys, Subject).pw \in Passwords
  /\ GetAuthMode(Sys, Subject) = AuthModePassword
  /\ Entries(List(Sys), Subject) = 1
  /\ C2_CreatePassword

\* C3: for a tunnel user U, SwitchAuthMode(U, key) followed by
\* SwitchAuthMode(U, password) leaves U a member of sshtunnel-password and
\* of sshtunnel-key by neither primary nor supplementary membership.
C3_SwitchKeyThenPassword ==
  \A u \in Users :
    LET r1 == SwitchAuthMode(Sys, u, AuthModeKey, TRUE)
        r2 == SwitchAuthMode(r1.S, u, AuthModePassword, TRUE)
    IN (IsTunnelUser(Sys, u) /\ r1.err = Nil /\ r2.err = Nil) =>
         /\ MemberOf(r2.S, u, GroupPasswordAuth)
         /\ ~MemberOf(r2.S, u, GroupKeyAuth)

\* C3 witness: the subject is a tunnel user in both groups; the first switch
\* puts it in the key group only and the second in the password group only.
C3_Witness ==
  LET r1 == SwitchAuthMode(Sys, Subject, AuthModeKey, TRUE)
      r2 == SwitchAuthMode(r1.S, Subject, AuthModePassword, TRUE)
  IN /\ MemberOf(Sys, Subject, GroupPasswordAuth)
     /\ MemberOf(Sys, Subject, GroupKeyAuth)
     /\ r1.err = Nil /\ r2.err = Nil
     /\ MemberOf(r1.S, Subject, GroupKeyAuth)
     /\ ~MemberOf(r1.S, Subject, GroupPasswordAuth)
     /\ MemberOf(r2.S, Subject, GroupPasswordAuth)
     /\ ~MemberOf(r2.S, Subject, GroupKeyAuth)

\* the Delete environments in which gpasswd succeeds for both groups or for
\* neither
UniformDeleteEnv == {e \in DeleteEnv : e.gp \in {GroupSet, {}}}

\* some account is a primary or supplementary member of a tunnel group
HasMember(S) ==
  \E g \in GroupSet :
    \/ g \in DOMAIN S.group /\ Len(S.group[g]) > 0
    \/ \E i \in 1..Len(S.passwd) : S.passwd[i].gid = g

\* C4: DeleteGroups returns an error and deletes neither group whenever a
\* tunnel group has a primary or supplementary member; after a DeleteAllUsers
\* in which every deletion succeeded, DeleteGroups succeeds and both groups
\* are gone, a group that is already absent being skipped without error.
C4_DeleteGroups ==
  /\ HasMember(Sys) =>
       LET r == DeleteGroups(Sys) IN r.err # Nil /\ r.S = Sys
  /\ \A envs \in [Users -> UniformDeleteEnv] :
       LET d == DeleteAllUsers(Sys, envs)
           r == DeleteGroups(d.S)
       IN d.err = Nil =>
            /\ r.err = Nil
            /\ \A g \in GroupSet : ~LookupGroup(r.S, g)

\* C4 witness: both groups exist, one user is a primary and the other a
\* supplementary member; DeleteGroups refuses, and after DeleteAllUsers has
\* deleted both users it removes both groups.
C4_Witness ==
  LET d == DeleteAllUsers(Sys, [u \in Users |-> DeleteOk])
      r == DeleteGroups(d.S)
  IN /\ \A g \in GroupSet : LookupGroup(Sys, g)
     /\ \E u \in Users, g \in GroupSet : isPrimaryGroup(Sys, u, g)
     /\ \E u \in Users, g \in GroupSet :
          ~isPrimaryGroup(Sys, u, g) /\ InSeq(u, getGroupMembers(Sys, g))
     /\ DeleteGroups(Sys).err # Nil
     /\ DeleteGroups(Sys).S = Sys
     /\ Len(d.deleted) = Cardinality(Users)
     /\ d.err = Nil
     /\ r.err = Nil
     /\ \A g \in GroupSet : ~LookupGroup(r.S, g)

\* the usernames of a List() result, in order
Names(users) == [i \in 1..Len(users) |-> users[i].Username]

\* the system after Delete has run for names[1..k] in turn
RECURSIVE AfterDeletes(_, _, _, _)
AfterDeletes(S, names, k, envs) ==
  IF k = 0 THEN S
  ELSE Delete(AfterDeletes(S, names, k - 1, envs), names[k], envs[names[k]]).S

\* the Delete of names[k] succeeds when it runs after those of names[1..k-1]
Succeeds(S, names, k, envs) ==
  Delete(AfterDeletes(S, names, k - 1, envs), names[k], envs[names[k]]).err = Nil

RECURSIVE Succeeded(_, _, _, _)
Succeeded(S, names, k, envs) ==
  IF k = 0 THEN <<>>
  ELSE IF Succeeds(S, names, k, envs)
       THEN Append(Succeeded(S, names, k - 1, envs), names[k])
       ELSE Succeeded(S, names, k - 1, envs)

FixedOrder == <<"DeleteAllUsers", "RemoveAndReload", "DeleteGroups",
                "CleanupAuthorizedKeysDir", "CleanupDenyFiles">>

Rank(step) == CHOOSE i \in 1..Len(FixedOrder) : FixedOrder[i] = step

\* the system and the hardening flag a step leaves when it starts from st
Effect(step, st, env) ==
  CASE step = "DeleteAllUsers" ->
         [st EXCEPT !.S = DeleteAllUsers(st.S, env.del).S]
    [] step = "RemoveAndReload" ->
         [st EXCEPT !.configured = RemoveAndReload(st.configured, env.rr).configured]
    [] step = "DeleteGroups" -> [st EXCEPT !.S = DeleteGroups(st.S).S]
    [] step = "CleanupAuthorizedKeysDir" ->
         [st EXCEPT !.S = CleanupAuthorizedKeysDir(st.S)]
    [] step = "CleanupDenyFiles" -> [st EXCEPT !.S = CleanupDenyFiles(st.S)]

\* the steps of r ran one after the other from st: each starts from the
\* state its predecessor returned, and the last returns the state of r
Sequenced(r, st, env) ==
  LET n == Len(r.trace)
  IN /\ Len(r.log) = n
     /\ n = 0 => r.S = st.S /\ r.configured = st.configured
     /\ n > 0 =>
          /\ r.log[1] = st
          /\ \A k \in 1..(n - 1) : r.log[k + 1] = Effect(r.trace[k], r.log[k], env)
          /\ [S |-> r.S, configured |-> r.configured]
               = Effect(r.trace[n], r.log[n], env)

\* the results of the three full-teardown paths started in the current
\* state, the menu path with and without the user's confirmation
FullTeardowns(env) ==
  {uninstallAllCLI(Sys, configured, env),
   UninstallAllNonInteractive(Sys, configured, env),
   uninstallAll(Sys, configured, TRUE, env),
   uninstallAll(Sys, configured, FALSE, env)}

\* C6: every full-teardown path (CLI, menu, UninstallAllNonInteractive) runs
\* the steps it runs in the order delete users, remove hardening config,
\* delete groups, clean key directory, clean deny files, each step starting
\* from the state the previous one returned; a path that is not refused runs
\* the last three steps, and all five on a configured host with users.
C6_TeardownOrder ==
  \A env \in TeardownFailing :
    \A r \in FullTeardowns(env) :
      /\ \A i, j \in 1..Len(r.trace) :
           i < j => Rank(r.trace[i]) < Rank(r.trace[j])
      /\ Sequenced(r, [S |-> Sys, configured |-> configured], env)
      /\ r.err = Nil =>
           /\ \A k \in 3..5 : InSeq(FixedOrder[k], r.trace)
           /\ (configured /\ Len(List(Sys)) > 0) => r.trace = FixedOrder

\* C6 witness: on a configured host with two tunnel users and a key
\* directory every full-teardown path runs all five steps in order and
\* leaves no tunnel user, no hardening config, no group and no key directory.
C6_Witness ==
  /\ configured
  /\ Len(List(Sys)) = 2
  /\ Sys.keyDir
  /\ uninstallAll(Sys, configured, FALSE, TeardownOk).trace = <<>>
  /\ \A r \in {uninstallAllCLI(Sys, configured, TeardownOk),
              UninstallAllNonInteractive(Sys, configured, TeardownOk),
              uninstallAll(Sys, configured, TRUE, TeardownOk)} :
       /\ r.err = Nil
       /\ r.trace = FixedOrder
       /\ ~r.configured
       /\ List(r.S) = <<>>
       /\ DOMAIN r.S.group = {}
       /\ ~r.S.keyDir

\* the results of the two config-only teardown paths started in the current
\* state; rr is whether RemoveAndReload succeeds
ConfigTeardowns(rr, confirm) ==
  {uninstallConfigCLI(Sys, configured, [TeardownOk EXCEPT !.rr = rr]),
   uninstallConfig(Sys, configured, confirm, [TeardownOk EXCEPT !.rr = rr])}

\* C7: config-only teardown changes the hardening config or the groups only
\* when no tunnel group has a member; when a tunnel group has a member it
\* returns an error and leaves the hardening config, the groups, the key
\* directory and the deny files unchanged.
C7_ConfigOnly ==
  \A rr \in BOOLEAN, confirm \in BOOLEAN :
    \A r \in ConfigTeardowns(rr, confirm) :
      /\ HasMember(Sys) =>
           /\ r.err # Nil
           /\ r.trace = <<>>
           /\ r.configured = configured
           /\ r.S = Sys
      /\ (r.configured # configured \/ r.S.group # Sys.group) => ~HasMember(Sys)

\* C7 witness: on a configured host with a tunnel user, a key file and deny
\* entries both paths refuse and change nothing; once the users are deleted
\* both remove the hardening config and the groups.
C7_Witness ==
  LET d == DeleteAllUsers(Sys, [u \in Users |-> DeleteOk]).S
  IN /\ configured
     /\ HasMember(Sys)
     /\ Sys.keyDir
     /\ \A g \in GroupSet : LookupGroup(Sys, g)
     /\ \A r \in ConfigTeardowns(TRUE, TRUE) :
          r.err # Nil /\ r.S = Sys /\ r.configured
     /\ \A r \in {uninstallConfigCLI(d, configured, TeardownOk),
                  uninstallConfig(d, configured, TRUE, TeardownOk)} :
          r.err = Nil /\ ~r.configured /\ DOMAIN r.S.group = {}

\* C8: in every state reached through create, update, delete and teardown
\* operations the key file of U exists iff U is a tunnel user whose auth
\* mode is key.
C8_KeyFileIffKeyMode ==
  \A u \in Users :
    u \in DOMAIN keyFiles <=>
      (IsTunnelUser(Sys, u) /\ GetAuthMode(Sys, u) = AuthModeKey)

\* the lines CleanupDenyFiles is required to keep: the blank ones and those
\* naming an existing account
KeptByCleanup(S, lines) ==
  SelectSeq(lines, LAMBDA l : l = <<>> \/ ExistsLine(S, l))

\* C9: CleanupDenyFiles removes from each deny-list exactly the lines whose
\* username does not exist and keeps every other line, blank lines included,
\* in the original order.
C9_CleanupDenyFiles ==
  \A f \in DOMAIN deny :
    LET r == CleanupDenyFiles(Sys)
    IN /\ f \in DOMAIN r.deny
       /\ splitLines(r.deny[f]) = KeptByCleanup(Sys, splitLines(deny[f]))

\* C10: after Delete(U) has succeeded on a tunnel user U, U does not exist,
\* is not in List(), has no key file, and each deny-list has lost exactly the
\* lines equal to U, its other lines being kept in order.
C10_Delete ==
  \A u \in Users, env \in DeleteEnv :
    LET r == Delete(Sys, u, env)
    IN (IsTunnelUser(Sys, u) /\ r.err = Nil) =>
         /\ ~Exists(r.S, u)
         /\ Entries(List(r.S), u) = 0
         /\ u \notin DOMAIN r.S.keyFiles
         /\ \A f \in DOMAIN deny :
              /\ f \in DOMAIN r.S.deny
              /\ splitLines(r.S.deny[f])
                   = SelectSeq(splitLines(deny[f]), LAMBDA l : l # Str(u))

\* the names Delete may be called with: the accounts of the model and a name
\* that is never an account
DeleteNames == Users \cup {Ghost}

\* C11: Delete(U) on a name that is neither a primary nor a supplementary
\* member of a tunnel group, a nonexistent account included, returns an error
\* and changes no group membership, account, key file or deny-list.
C11_DeleteNotTunnelUser ==
  \A u \in DeleteNames, env \in DeleteEnv :
    (\A g \in GroupSet : ~MemberOf(Sys, u, g)) =>
      LET r == Delete(Sys, u, env) IN r.err # Nil /\ r.S = Sys

\* C11 witness: the tunnel groups exist, the subject is an ordinary account
\* outside both and is named in a deny-list; Delete refuses it and the
\* nonexistent account alike and changes nothing.
C11_Witness ==
  /\ \A g \in GroupSet : LookupGroup(Sys, g)
  /\ Exists(Sys, Subject)
  /\ \A g \in GroupSet : ~MemberOf(Sys, Subject, g)
  /\ InSeq(Str(Subject), splitLines(deny[CronDeny]))
  /\ \A u \in {Subject, Ghost} :
       LET r == Delete(Sys, u, DeleteOk) IN r.err # Nil /\ r.S = Sys

\* the errors of the credential step of Create
CredentialErrors ==
  {"invalid public key format", "failed to create authorized_keys.d",
   "failed to set ownership", "failed to set password"}

\* the credential step of Create(cfg) fails under env
CredentialFails(cfg, env) ==
  \/ env.cred # "ok"
  \/ cfg.AuthMode = AuthModeKey /\ ~ValidatePublicKey(cfg.PublicKey)

\* C12: Create fails fast without rollback: when the group and account steps
\* succeed and the credential step fails (a malformed public key included),
\* Create returns the credential error, the account exists as a member of the
\* group of the requested mode, and the deny-lists are as they were.
C12_CreateFailFast ==
  \A cfg \in CreateInputs(Users), env \in CreateEnv :
    (env.groupadd /\ env.acct /\ CredentialFails(cfg, env)) =>
      LET r == Create(Sys, cfg, env)
          userGroup == IF cfg.AuthMode = AuthModeKey THEN GroupKeyAuth
                       ELSE GroupPasswordAuth
      IN /\ r.err \in CredentialErrors
         /\ Exists(r.S, cfg.Username)
         /\ MemberOf(r.S, cfg.Username, userGroup)
         /\ r.S.deny = Sys.deny

\* C12 witness: Create with a malformed key has left the subject as a new
\* account in the key group, with no key file and in no deny-list; a further
\* such Create for the other account does the same.
C12_Witness ==
  LET r == Create(Sys, KeyCfg("b", BadKey), CreateOk)
  IN /\ isPrimaryGroup(Sys, Subject, GroupKeyAuth)
     /\ Subject \notin DOMAIN keyFiles
     /\ \A f \in DOMAIN deny : ~InSeq(Str(Subject), splitLines(deny[f]))
     /\ ~Exists(Sys, "b")
     /\ r.err = "invalid public key format"
     /\ isPrimaryGroup(r.S, "b", GroupKeyAuth)
     /\ r.S.deny = Sys.deny

\* the number of lines of a deny-list content that are the username u
Occurrences(content, u) ==
  LET lines == splitLines(content)
  IN Cardinality({i \in 1..Len(lines) : lines[i] = Str(u)})

\* C13: after a successful Create(U, ...), U is a line of both /etc/cron.deny
\* and /etc/at.deny; starting from lists without U, U is a line of each list
\* exactly once after one Create and after a second one.
C13_DenyListed ==
  \A u \in Users, p \in Passwords :
    LET r1 == Create(Sys, PasswordCfg(u, p), CreateOk)
        r2 == Create(r1.S, PasswordCfg(u, p), CreateOk)
    IN (r1.err = Nil /\ r2.err = Nil) =>
         \A f \in DenyFileSet :
           /\ f \in DOMAIN r1.S.deny
           /\ Occurrences(r1.S.deny[f], u) >= 1
           /\ (f \in DOMAIN deny /\ Occurrences(deny[f], u) = 0) =>
                /\ Occurrences(r1.S.deny[f], u) = 1
                /\ Occurrences(r2.S.deny[f], u) = 1

\* an octal permission digit grants read access
CanRead(digit) == (digit \div 4) % 2 = 1

\* C15: every key file written by SetupSSHKey is owned by root and is
\* readable by its owner only, neither by the group nor by others.
C15_KeyFileOwnerOnly ==
  \A u \in DOMAIN keyFiles :
    /\ keyFiles[u].owner = "root"
    /\ CanRead(keyFiles[u].perm[1])
    /\ ~CanRead(keyFiles[u].perm[2])
    /\ ~CanRead(keyFiles[u].perm[3])

\* C17: GetAuthMode(U) is password whenever U is a primary or supplementary
\* member of sshtunnel-password, also when U is in sshtunnel-key too; it is
\* key iff U is in sshtunnel-key and not in sshtunnel-password, and an error
\* iff U is in neither group.
C17_GetAuthMode ==
  \A u \in DeleteNames :
    LET inPassword == MemberOf(Sys, u, GroupPasswordAuth)
        inKey == MemberOf(Sys, u, GroupKeyAuth)
        mode == GetAuthMode(Sys, u)
    IN /\ inPassword => mode = AuthModePassword
       /\ mode = AuthModeKey <=> (inKey /\ ~inPassword)
       /\ mode = NotFound <=> (~inPassword /\ ~inKey)

\* C17 witness: the subject has sshtunnel-key as primary group and is a
\* supplementary member of sshtunnel-password; its mode reads password, and
\* a name in neither group reads as an error.
C17_Witness ==
  /\ isPrimaryGroup(Sys, Subject, GroupKeyAuth)
  /\ InSeq(Subject, getGroupMembers(Sys, GroupPasswordAuth))
  /\ GetAuthMode(Sys, Subject) = AuthModePassword
  /\ GetAuthMode(Sys, Ghost) = NotFound

\* C18: List() holds exactly the primary and supplementary members of the
\* two tunnel groups, each username once, and every password-mode entry
\* comes before every key-mode entry.
C18_List ==
  LET users == List(Sys)
  IN /\ \A u \in DeleteNames :
          Entries(users, u) = IF \E g \in GroupSet : MemberOf(Sys, u, g) THEN 1 ELSE 0
     /\ \A i \in 1..Len(users) : users[i].Username \in DeleteNames
     /\ \A i, j \in 1..Len(users) :
          (users[i].AuthMode = AuthModePassword /\ users[j].AuthMode = AuthModeKey)
            => i < j

\* C18 witness: the key user comes first in /etc/passwd and the password
\* user, who is in both groups, second; List() names the password user
\* first and each of them once.
C18_Witness ==
  LET users == List(Sys)
  IN /\ Len(users) = 2
     /\ users[1].AuthMode = AuthModePassword
     /\ users[2].AuthMode = AuthModeKey
     /\ MemberOf(Sys, users[1].Username, GroupKeyAuth)
     /\ \E i, j \in 1..Len(passwd) :
          i < j /\ passwd[i].name = users[2].Username
                /\ passwd[j].name = users[1].Username

\* the letters and digits
Alphanumeric == {Base64Alphabet[i] : i \in 1..62}

\* C19: the password GeneratePassword returns, for every value of its 18
\* random bytes, has exactly 16 characters, all of them alphanumeric; here
\* for the password of every account created with a generated password.
C19_GeneratedPassword ==
  \A i \in 1..Len(passwd) :
    /\ Len(passwd[i].pw) = 16
    /\ \A k \in 1..Len(passwd[i].pw) : passwd[i].pw[k] \in Alphanumeric

\* ------------------------------------------------------------------------
\* a handler's result when it refuses: an error, and the state it was given
RefusedBy(r) == r.err # Nil /\ r.S = Sys

\* C16: while the sshd hardening configuration is absent, the create, update
\* and list commands and the menu's create, update, list and delete choices
\* return an error and leave every account, group and file as it was
C16_ConfigRequired ==
  ~configured =>
    /\ \A cliMode \in BOOLEAN, args \in {<<>>, <<Subject>>},
          p \in Passwords \cup {""}, k \in PublicKeys \cup {<<>>},
          in \in FormInputs, env \in Failing(CreateEnv, CreateOk) :
         RefusedBy(runCreate(Sys, configured, cliMode, args, p, k, in,
                             [create |-> env, directive |-> TRUE]))
    /\ \A env \in Failing(UpdateEnv, UpdateOk) :
         /\ \A p \in Passwords :
              RefusedBy(runUpdate(Sys, configured, Subject, "insecure-password", p, env))
         /\ \A k \in PublicKeys :
              RefusedBy(runUpdate(Sys, configured, Subject, "pubkey", k, env))
    /\ RefusedBy(runList(Sys, configured))
    /\ \A choice \in MenuChoices, in \in FormInputs :
         RefusedBy(handleChoice(Sys, configured, choice, in, HandlerOk))

\* the configuration is absent, the subject is a tunnel user, and the menu's
\* delete choice, which would remove the account on a configured host, is
\* refused
C16_Witness ==
  LET in == [Username |-> Subject, AuthMode |-> AuthModePassword,
             choice |-> "password", Password |-> "pw1", PublicKey |-> GoodKey,
             rnd |-> <<>>, confirm |-> TRUE]
  IN /\ ~configured
     /\ IsTunnelUser(Sys, Subject)
     /\ ~Exists(handleChoice(Sys, TRUE, "delete", in, HandlerOk).S, Subject)
     /\ RefusedBy(handleChoice(Sys, configured, "delete", in, HandlerOk))
     /\ RefusedBy(runList(Sys, configured))

\* ------------------------------------------------------------------------
\* C14: after SetupSSHKey succeeds the key file holds exactly one line, the
\* restriction prefix followed by the key and a newline, and nothing else
C14_KeyFileOneLine ==
  \A u \in DOMAIN keyFiles :
     LET c == keyFiles[u].content
     IN /\ c = <<"restrict,port-forwarding", " ">> \o createPubkey \o <<NL>>
        /\ \A i \in 1..(Len(c) - 1) : c[i] # NL

\* ------------------------------------------------------------------------
\* the first whitespace-delimited token of a key
RECURSIVE FirstToken(_)
FirstToken(key) ==
  IF Len(key) = 0 \/ Head(key) \in {" ", NL} THEN <<>>
  ELSE <<Head(key)>> \o FirstToken(Tail(key))

\* ssh-rsa, ssh-ed25519, ssh-dss, or ecdsa-sha2-nistp and one or more digits
IsKeyType(tok) ==
  \/ Len(tok) = 1 /\ tok[1] \in KeyTypes
  \/ /\ Len(tok) >= 2
     /\ tok[1] = EcdsaPrefix
     /\ \A i \in 2..Len(tok) : tok[i] \in Digits

\* C20 as stated: ValidatePublicKey accepts exactly the strings whose first
\* token is one of the key types
C20_FirstToken ==
  ValidatePublicKey(createPubkey) <=> IsKeyType(FirstToken(createPubkey))

\* a key type followed by one space
TypePrefixes ==
  {<<t, " ">> : t \in KeyTypes}
  \cup {<<EcdsaPrefix>> \o d \o <<" ">> :
          d \in UNION {[1..n -> Digits] : n \in 1..MaxKeyLen}}

BeginsWith(key, p) == Len(key) >= Len(p) /\ SubSeq(key, 1, Len(p)) = p

\* C20: ValidatePublicKey accepts exactly the strings that begin with one of
\* ssh-rsa, ssh-ed25519, ecdsa-sha2-nistp<digits> or ssh-dss immediately
\* followed by a space, and rejects every other string; the create command
\* stores a key file only for an accepted key; 'ssh-ed25519 AAAA' is accepted
\* and 'not-a-key' is rejected
C20_TypeThenSpace ==
  /\ ValidatePublicKey(createPubkey)
       <=> \E p \in TypePrefixes : BeginsWith(createPubkey, p)
  /\ DOMAIN keyFiles # {} => \E p \in TypePrefixes : BeginsWith(createPubkey, p)
  /\ ValidatePublicKey(GoodKey)
  /\ ~ValidatePublicKey(BadKey)

\* the create command was given 'ssh-ed25519 AAAA' and stored it
C20_Witness ==
  /\ createPubkey = GoodKey
  /\ Subject \in DOMAIN keyFiles
  /\ keyFiles[Subject].content = KeyFileContent(GoodKey)

\* ------------------------------------------------------------------------
\* C21: when Create(U, m) returns without error for an account U that
\* already exists, GetAuthMode(U) is m, for m = password and m = key and
\* whatever U's earlier membership was
C21_CreateExisting ==
  \A u \in Users :
    Exists(Sys, u) =>
      /\ \A p \in Passwords :
           LET r == Create(Sys, PasswordCfg(u, p), CreateOk)
           IN r.err = Nil => GetAuthMode(r.S, u) = AuthModePassword
      /\ LET r == Create(Sys, KeyCfg(u, GoodKey), CreateOk)
         IN r.err = Nil => GetAuthMode(r.S, u) = AuthModeKey

\* ------------------------------------------------------------------------
\* the tunnel-group membership of every account: the member lists and the
\* primary groups
Membership(S) ==
  [group |-> S.group, gid |-> [i \in 1..Len(S.passwd) |-> S.passwd[i].gid]]

\* the credentials of every account: the passwords and the key files
Credentials(S) ==
  [pw |-> [i \in 1..Len(S.passwd) |-> S.passwd[i].pw], keyFiles |-> S.keyFiles]

\* the update paths for the subject under env: r is what the path returns,
\* c what its credential step returns on the state the path starts from,
\* target the mode the credential belongs to
UpdatePaths(env) ==
  LET forms == {in \in FormInputs : in.Username = Subject /\ in.choice # "back"
                                     /\ promptPubkey(in.PublicKey)}
      cred(in) == IF in.choice = "password"
                  THEN SetPassword(Sys, Subject, in.Password, env.cred)
                  ELSE SetupSSHKey(Sys, Subject, in.PublicKey, env.cred)
      mode(in) == IF in.choice = "password" THEN AuthModePassword ELSE AuthModeKey
  IN {[r |-> runUpdate(Sys, configured, Subject, "insecure-password", p, env),
       c |-> SetPassword(Sys, Subject, p, env.cred),
       target |-> AuthModePassword] : p \in Passwords}
     \cup {[r |-> runUpdate(Sys, configured, Subject, "pubkey", k, env),
            c |-> SetupSSHKey(Sys, Subject, k, env.cred),
            target |-> AuthModeKey] : k \in PublicKeys}
     \cup {[r |-> runUpdate(Sys, configured, Subject, "", in, env),
            c |-> cred(in), target |-> mode(in)] : in \in forms}
     \cup {[r |-> handleChoice(Sys, configured, "update", in,
                               [HandlerOk EXCEPT !.update = env]),
            c |-> cred(in), target |-> mode(in)] : in \in forms}

\* C22: every update path sets the credential before it calls
\* SwitchAuthMode and calls SwitchAuthMode only when the current mode
\* differs from the target mode: a failed credential step returns the error
\* with the group membership unchanged; with the mode already right the path
\* succeeds even where SwitchAuthMode would fail; with a different mode a
\* failing SwitchAuthMode returns its error after the credential is in place
C22_CredentialThenSwitch ==
  (configured /\ IsTunnelUser(Sys, Subject)) =>
    \A env \in UpdateEnv :
      \A x \in UpdatePaths(env) :
        LET cur == GetAuthMode(Sys, Subject)
        IN /\ x.c.err # Nil =>
                x.r.err # Nil /\ Membership(x.r.S) = Membership(Sys)
           /\ (x.c.err = Nil /\ cur = x.target) =>
                x.r.err = Nil /\ x.r.S = x.c.S
           /\ (x.c.err = Nil /\ cur # x.target /\ ~env.sw) =>
                x.r.err # Nil /\ x.r.S = x.c.S
           /\ (x.c.err = Nil /\ cur # x.target /\ env.sw) =>
                x.r.err = Nil /\ Credentials(x.r.S) = Credentials(x.c.S)

\* the subject is a key user on a configured host; an update to a password
\* whose credential step fails leaves it a key user, a successful one held
\* back by a failing switch leaves the new password on a key user, and a
\* successful one makes it a password user
C22_Witness ==
  LET upd(env) == runUpdate(Sys, configured, Subject, "insecure-password", "pw1", env)
  IN /\ configured
     /\ GetAuthMode(Sys, Subject) = AuthModeKey
     /\ Entry(Sys, Subject).pw # "pw1"
     /\ upd([cred |-> "mkdir", sw |-> TRUE]).err # Nil
     /\ Membership(upd([cred |-> "mkdir", sw |-> TRUE]).S) = Membership(Sys)
     /\ upd([cred |-> "ok", sw |-> FALSE]).err # Nil
     /\ Entry(upd([cred |-> "ok", sw |-> FALSE]).S, Subject).pw = "pw1"
     /\ GetAuthMode(upd([cred |-> "ok", sw |-> FALSE]).S, Subject) = AuthModeKey
     /\ upd(UpdateOk).err = Nil
     /\ GetAuthMode(upd(UpdateOk).S, Subject) = AuthModePassword

\* ------------------------------------------------------------------------
\* C23: Delete(U) of a tunnel user U attempts the account removal even when
\* the group-membership removal fails, and once it has returned, with or
\* without an error, U is listed by List() iff U's account still exists
C23_DeleteNotHalf ==
  IsTunnelUser(Sys, Subject) =>
    \A env \in DeleteEnv :
      LET r == Delete(Sys, Subject, env)
      IN /\ (env.gp = {} /\ env.del) => ~Exists(r.S, Subject)
         /\ Entries(List(r.S), Subject) > 0 <=> Exists(r.S, Subject)

\* ------------------------------------------------------------------------
\* C24: the deny-file update of Delete and of CleanupDenyFiles is a
\* read-modify-write that is not atomic: when the creating instance has
\* appended its user to the file after the removing instance read it, the
\* removing instance's write stores the content it computed from the old
\* data and the appended entry is gone; the created user is a tunnel user
\* all the same once both instances have finished
C24_LostUpdate ==
  LET f == DenyFiles[inst.rem.i]
      after == writeDeny(Sys, f, inst.rem)
  IN /\ (/\ inst.rem.pc = "write"
         /\ inst.rem.write
         /\ foundIn(Sys, f, RaceNew)
         /\ ~InSeq(Str(RaceNew), splitLines(inst.rem.content)))
          => /\ after.deny[f] = inst.rem.content
             /\ ~foundIn(after, f, RaceNew)
     /\ (inst.rem.pc = "done" /\ inst.cre.pc = "done")
          => IsTunnelUser(Sys, RaceNew) /\ ~Exists(Sys, Ghost)

\* both instances have finished, the new user exists and is a tunnel user,
\* and a deny-list does not name it
C24_Witness ==
  /\ inst.rem.pc = "done"
  /\ inst.cre.pc = "done"
  /\ Exists(Sys, RaceNew)
  /\ IsTunnelUser(Sys, RaceNew)
  /\ \E f \in DOMAIN deny : ~foundIn(Sys, f, RaceNew)

\* ------------------------------------------------------------------------
\* the entries of authorized_keys.d that CleanupAuthorizedKeysDir must keep:
\* the subdirectories and the key files named after an existing account
MustKeep(S) ==
  {n \in DOMAIN S.keyFiles :
     IsDir(S.keyFiles[n]) \/ \E i \in 1..Len(S.passwd) : S.passwd[i].name = n}

\* C25: CleanupAuthorizedKeysDir removes exactly the key files whose name is
\* not an existing account, keeps every key file of an existing account and
\* every subdirectory as they are, removes the directory itself only if it
\* is empty afterwards, touches nothing else, and does nothing and returns
\* no error when the directory does not exist
C25_CleanupAuthorizedKeysDir ==
  LET r == cleanupAuthorizedKeysDir(Sys, KeysDirOk)
  IN /\ r.err = Nil
     /\ r.S.passwd = passwd /\ r.S.group = group /\ r.S.deny = deny
     /\ ~keyDir => r.S = Sys
     /\ keyDir =>
          /\ DOMAIN r.S.keyFiles = MustKeep(Sys)
          /\ \A n \in MustKeep(Sys) : r.S.keyFiles[n] = keyFiles[n]
          /\ r.S.keyDir <=> MustKeep(Sys) # {}
     /\ \A io \in KeysDirEnv :
          ~keyDir => cleanupAuthorizedKeysDir(Sys, io) = [S |-> Sys, err |-> Nil]

\* the directory holds a key file nobody owns, the key file of an existing
\* account and a subdirectory: the first is removed, the other two and the
\* directory stay
C25_Witness ==
  LET r == cleanupAuthorizedKeysDir(Sys, KeysDirOk)
  IN /\ keyDir
     /\ Ghost \in DOMAIN keyFiles /\ ~Exists(Sys, Ghost)
     /\ Subject \in DOMAIN keyFiles /\ Exists(Sys, Subject)
     /\ SubDir \in DOMAIN keyFiles
     /\ DOMAIN r.S.keyFiles = (DOMAIN keyFiles) \ {n \in KeyFileNames : ~Exists(Sys, n)}
     /\ Ghost \notin DOMAIN r.S.keyFiles
     /\ r.S.keyDir

\* ------------------------------------------------------------------------
\* C26: best-effort steps never abort the enclosing command: when
\* AddAuthorizedKeysDirective fails after a successful key-mode Create the
\* create command returns success with the user in place, exactly as when
\* the directive is added; when the fail2ban setup fails the configure
\* command returns success with the hardening config written
C26_BestEffort ==
  /\ \A cliMode \in BOOLEAN, in \in FormInputs, env \in Failing(CreateEnv, CreateOk) :
       LET args == IF cliMode THEN <<Subject>> ELSE <<>>
           run(d) == runCreate(Sys, configured, cliMode, args, "", GoodKey,
                               [in EXCEPT !.AuthMode = AuthModeKey, !.PublicKey = GoodKey],
                               [create |-> env, directive |-> d])
           created == Create(Sys, KeyCfg(Subject, GoodKey), env)
       IN /\ run(FALSE).err = run(TRUE).err
          /\ run(FALSE).S = run(TRUE).S
          /\ (/\ configured /\ ~Exists(Sys, Subject) /\ created.err = Nil
              /\ (cliMode \/ in.Username = Subject))
               => /\ run(FALSE).err = Nil
                  /\ run(FALSE).S = created.S
                  /\ Len(run(FALSE).warnings) = 1
  /\ \A noFail2ban \in BOOLEAN :
       LET r == runConfigure(configured, noFail2ban, [configure |-> TRUE, fail2ban |-> FALSE])
       IN r.err = Nil /\ r.configured

\* the host is configured and the subject does not exist: the create
\* command with a key creates the key user and returns success although the
\* directive could not be added
C26_Witness ==
  LET r == runCreate(Sys, configured, TRUE, <<Subject>>, "", GoodKey, NoForm,
                     [create |-> CreateOk, directive |-> FALSE])
  IN /\ configured
     /\ ~Exists(Sys, Subject)
     /\ r.err = Nil
     /\ r.warnings # <<>>
     /\ GetAuthMode(r.S, Subject) = AuthModeKey
     /\ Subject \in DOMAIN r.S.keyFiles
     /\ runConfigure(FALSE, FALSE, [configure |-> TRUE, fail2ban |-> FALSE]).configured

\* ------------------------------------------------------------------------
\* the usernames the readers are asked about: the accounts of the model, a
\* name without account, and the empty name
AnyNames == Users \cup {Ghost, ""}

\* C27: List, GetAuthMode, IsTunnelUser and GroupsHaveUsers agree in every
\* state: IsTunnelUser(U) holds iff List() has an entry for U, List() has at
\* most one entry for U and its mode is GetAuthMode(U), and GroupsHaveUsers()
\* is true iff List() is not empty
C27_ReadersAgree ==
  LET users == List(Sys)
  IN /\ \A u \in AnyNames :
          /\ IsTunnelUser(Sys, u) <=> Entries(users, u) > 0
          /\ Entries(users, u) <= 1
          /\ \A i \in 1..Len(users) :
               users[i].Username = u => users[i].AuthMode = GetAuthMode(Sys, u)
     /\ \A i \in 1..Len(users) : users[i].Username \in AnyNames
     /\ GroupsHaveUsers(Sys) <=> Len(users) > 0

\* the subject has sshtunnel-key as primary group and is a supplementary
\* member of sshtunnel-password: it is listed once, as a password user, which
\* is what GetAuthMode answers
C27_Witness ==
  /\ isPrimaryGroup(Sys, Subject, GroupKeyAuth)
  /\ InSeq(Subject, getGroupMembers(Sys, GroupPasswordAuth))
  /\ List(Sys) = <<[Username |-> Subject, AuthMode |-> AuthModePassword]>>
  /\ GetAuthMode(Sys, Subject) = AuthModePassword
  /\ IsTunnelUser(Sys, Subject)
  /\ GroupsHaveUsers(Sys)


\* C28: in every teardown variant (config-only and all; CLI, menu and
\* UninstallAllNonInteractive) the step that removes the hardening config
\* starts in a state where no tunnel user exists: when a user deletion fails
\* during uninstall all, the config is not removed while that user remains.
C28_ConfigRemovedWithoutUsers ==
  \A env \in TeardownFailing :
    \A r \in FullTeardowns(env) \cup ConfigTeardowns(env.rr, TRUE) :
      \A k \in 1..Len(r.trace) :
        (r.trace[k] = "RemoveAndReload" /\ r.log[k].configured /\ env.rr)
          => Len(List(r.log[k].S)) = 0


\* the deny-list lines of S that name the user u
DenyLinesNaming(S, u) ==
  {f \in DOMAIN S.deny : InSeq(Str(u), splitLines(S.deny[f]))}

\* the three uninstall-all paths run to the end with every command succeeding
UninstallAllOk ==
  {uninstallAllCLI(Sys, configured, TeardownOk),
   UninstallAllNonInteractive(Sys, configured, TeardownOk),
   uninstallAll(Sys, configured, TRUE, TeardownOk)}

\* C29: uninstall all started with the hardening config present and at least
\* one tunnel user, every external command succeeding, ends with no tunnel
\* user, the hardening config absent, both tunnel groups absent, no key file
\* of a deleted user and no deny-list line naming a deleted user.
C29_UninstallAllComplete ==
  (configured /\ Len(List(Sys)) > 0) =>
    \A r \in UninstallAllOk :
      /\ r.err = Nil
      /\ Len(List(r.S)) = 0
      /\ ~r.configured
      /\ \A g \in GroupSet : ~LookupGroup(r.S, g)
      /\ r.deleted = Names(List(Sys))
      /\ \A i \in 1..Len(r.deleted) :
           /\ ~Exists(r.S, r.deleted[i])
           /\ r.deleted[i] \notin DOMAIN r.S.keyFiles
           /\ DenyLinesNaming(r.S, r.deleted[i]) = {}

\* C29 witness: a configured host with a key user and a password user, a key
\* file and deny-list lines for them; uninstall all deletes both.
C29_Witness ==
  /\ configured
  /\ Len(List(Sys)) = 2
  /\ \E i \in 1..2 : List(Sys)[i].Username \in DOMAIN Sys.keyFiles
  /\ \A i \in 1..2 : DenyLinesNaming(Sys, List(Sys)[i].Username) = DenyFileSet
  /\ \A g \in GroupSet : LookupGroup(Sys, g)
  /\ \A r \in UninstallAllOk : Len(r.deleted) = 2 /\ ~r.configured


\* what belongs to the user v in S: the passwd entries, the tunnel groups
\* listing v, the auth mode, the key file, and for each deny-list the number
\* of lines naming v
Owned(S, v) ==
  [account |-> SelectSeq(S.passwd, LAMBDA e : e.name = v),
   groups |-> {g \in DOMAIN S.group : InSeq(v, S.group[g])},
   mode |-> GetAuthMode(S, v),
   key |-> IF v \in DOMAIN S.keyFiles THEN <<S.keyFiles[v]>> ELSE <<>>,
   deny |-> [f \in DenyFileSet |->
               IF f \in DOMAIN S.deny
               THEN Len(SelectSeq(splitLines(S.deny[f]), LAMBDA l : l = Str(v)))
               ELSE 0]]

\* the systems Create, SetupSSHKey, SetPassword and Delete leave behind when
\* applied to the user u, whatever their outcome
AppliedTo(u) ==
  {Create(Sys, cfg, env).S :
     cfg \in CreateInputs({u}), env \in Failing(CreateEnv, CreateOk)}
  \cup {SetupSSHKey(Sys, u, k, io).S : k \in PublicKeys, io \in CredOutcomes}
  \cup {SetPassword(Sys, u, p, io).S : p \in Passwords, io \in CredOutcomes}
  \cup {Delete(Sys, u, env).S : env \in Failing(DeleteEnv, DeleteOk)}

\* C30: Create, SetupSSHKey, SetPassword and Delete applied to a user u leave
\* every other tunnel user v unchanged: v's account, tunnel-group membership,
\* auth mode, key file and deny-list lines are the same before and after.
C30_OtherUsersUnchanged ==
  \A u \in Users : \A v \in Users \ {u} :
    IsTunnelUser(Sys, v) => \A T \in AppliedTo(u) : Owned(T, v) = Owned(Sys, v)

====
